---------------------------- MODULE Spec2Model ----------------------------
(***************************************************************************)
(* Model of the fake-news scoring backend: FakeNewsDetector (src/model.py) *)
(* over RedisCache (src/cache.py).                                         *)
(*                                                                         *)
(* Texts are TLA+ strings handled character by character.  Probabilities   *)
(* (Python floats in [0,1]) are fixed-point integers in units of           *)
(* 1/ProbScale.  Tasks are asyncio tasks; a task may be suspended at every *)
(* await expression of the source, so each action is the code between two  *)
(* awaits.                                                                 *)
(***************************************************************************)
EXTENDS Integers, Sequences, FiniteSets, TLC

(***************************************************************************)
(* Strings                                                                 *)
(***************************************************************************)
Char(s, i) == SubSeq(s, i, i)

Drop(s, n) == SubSeq(s, n + 1, Len(s))

Take(s, n) == SubSeq(s, 1, IF n < Len(s) THEN n ELSE Len(s))

UpperChars == "ABCDEFGHIJKLMNOPQRSTUVWXYZ"

LowerChars == "abcdefghijklmnopqrstuvwxyz"

Digits == "0123456789"

\* str.lower() on one character
LowerChar(c) ==
    IF \E i \in 1..Len(UpperChars) : Char(UpperChars, i) = c
    THEN Char(LowerChars, CHOOSE i \in 1..Len(UpperChars) : Char(UpperChars, i) = c)
    ELSE c

RECURSIVE lower(_)
lower(s) == IF s = "" THEN "" ELSE LowerChar(Char(s, 1)) \o lower(Drop(s, 1))

\* the regex class \s (its ASCII members) and what str.strip() removes
IsSpace(c) == c \in {" ", "\t", "\n", "\r", "\f"}

\* the regex class \w
IsWordChar(c) ==
    \/ \E i \in 1..Len(LowerChars) : Char(LowerChars, i) = c
    \/ \E i \in 1..Len(UpperChars) : Char(UpperChars, i) = c
    \/ \E i \in 1..Len(Digits) : Char(Digits, i) = c
    \/ c = "_"

\* w occurs in s starting at position i
OccursAt(s, i, w) ==
    /\ i >= 1
    /\ i + Len(w) - 1 <= Len(s)
    /\ SubSeq(s, i, i + Len(w) - 1) = w

\* Python's  w in s
Contains(s, w) == \E i \in 1..(Len(s) + 1) : OccursAt(s, i, w)

(***************************************************************************)
(* Sanitizer: FakeNewsDetector._sanitize_text                              *)
(***************************************************************************)
\* A raw input is a Python value: a str, or something that is not a str.
Str(s) == [isStr |-> TRUE, s |-> s]

NonText == [isStr |-> FALSE, s |-> ""]

\* text[:10000]
MaxTextLen == 10000

\* re.sub(r'<[^>]*>', '', text): leftmost matches, each from a '<' to the
\* first '>' after it; a '<' with no '>' after it is kept.
RECURSIVE StripTags(_)
StripTags(s) ==
    IF s = "" THEN ""
    ELSE IF Char(s, 1) = "<" /\ \E j \in 2..Len(s) : Char(s, j) = ">"
         THEN LET close == CHOOSE j \in 2..Len(s) :
                               /\ Char(s, j) = ">"
                               /\ \A k \in 2..(j - 1) : Char(s, k) # ">"
              IN  StripTags(Drop(s, close))
         ELSE Char(s, 1) \o StripTags(Drop(s, 1))

\* re.sub(word, '', text, flags=re.IGNORECASE) for a literal lower-case word:
\* one left-to-right pass, the text that remains is not scanned again.
RECURSIVE StripLiteralCI(_, _)
StripLiteralCI(word, s) ==
    IF s = "" THEN ""
    ELSE IF Len(word) <= Len(s) /\ lower(SubSeq(s, 1, Len(word))) = word
         THEN StripLiteralCI(word, Drop(s, Len(word)))
         ELSE Char(s, 1) \o StripLiteralCI(word, Drop(s, 1))

RECURSIVE DropSpaces(_)
DropSpaces(s) ==
    IF s # "" /\ IsSpace(Char(s, 1)) THEN DropSpaces(Drop(s, 1)) ELSE s

\* re.sub(r'\s+', ' ', text)
RECURSIVE CollapseSpaces(_)
CollapseSpaces(s) ==
    IF s = "" THEN ""
    ELSE IF IsSpace(Char(s, 1))
         THEN " " \o CollapseSpaces(DropSpaces(s))
         ELSE Char(s, 1) \o CollapseSpaces(Drop(s, 1))

RECURSIVE DropTrailingSpaces(_)
DropTrailingSpaces(s) ==
    IF s # "" /\ IsSpace(Char(s, Len(s)))
    THEN DropTrailingSpaces(SubSeq(s, 1, Len(s) - 1))
    ELSE s

\* str.strip()
strip(s) == DropTrailingSpaces(DropSpaces(s))

\* variant: white space is collapsed before the text is cut to the limit
sanitize_text_within_collapse_first(raw, limit) ==
    IF ~raw.isStr \/ raw.s = "" THEN ""
    ELSE LET t1 == StripTags(raw.s)
             t2 == StripLiteralCI("javascript:", t1)
             t3 == StripLiteralCI("data:", t2)
             t4 == CollapseSpaces(t3)
         IN  strip(Take(t4, limit))

\* _sanitize_text with the slice text[:limit]
sanitize_text_within(raw, limit) ==
    IF ~raw.isStr \/ raw.s = "" THEN ""
    ELSE LET t1 == StripTags(raw.s)
             t2 == StripLiteralCI("javascript:", t1)
             t3 == StripLiteralCI("data:", t2)
             t4 == Take(t3, limit)
         IN  strip(CollapseSpaces(t4))

\* variant: the final .strip() is left out
sanitize_text_unstripped(raw) ==
    IF ~raw.isStr \/ raw.s = "" THEN ""
    ELSE LET t1 == StripTags(raw.s)
             t2 == StripLiteralCI("javascript:", t1)
             t3 == StripLiteralCI("data:", t2)
             t4 == Take(t3, MaxTextLen)
         IN  CollapseSpaces(t4)

\* FakeNewsDetector._sanitize_text: the slice is text[:10000]
sanitize_text(raw) == sanitize_text_within(raw, MaxTextLen)

(***************************************************************************)
(* Signal detector: FakeNewsDetector._detect_suspicious_patterns           *)
(***************************************************************************)
suspicious_keywords ==
    << "conspiracy", "cover up", "fake news", "hoax", "lies",
       "mainstream media", "sheeple", "wake up", "truth seekers",
       "government lies", "big pharma", "deep state", "illuminati",
       "vaccine autism", "5g coronavirus", "flat earth", "moon landing fake" >>

\* Each regex of the source is  \b G1 \s+ G2 ... \s+ Gn \b  with every Gi an
\* alternation of literals, or an alternation of such sequences.  "regex" is
\* the source text of the pattern; "alts" is the set of alternatives, each a
\* sequence of groups, each group the set of its literals.
suspicious_patterns ==
    << [regex |-> "\\b(?:100%|absolutely|definitely|proven|scientific)\\s+(?:fact|truth|real)\\b",
        alts  |-> { << {"100%", "absolutely", "definitely", "proven", "scientific"},
                       {"fact", "truth", "real"} >> }],
       [regex |-> "\\b(?:mainstream|corporate|fake)\\s+(?:media|news|scientists)\\b",
        alts  |-> { << {"mainstream", "corporate", "fake"},
                       {"media", "news", "scientists"} >> }],
       [regex |-> "\\b(?:they|them|them)\\s+(?:don\\'t|won\\'t|can\\'t)\\s+(?:want|let|tell)\\s+(?:you|us)\\b",
        alts  |-> { << {"they", "them"}, {"don't", "won't", "can't"},
                       {"want", "let", "tell"}, {"you", "us"} >> }],
       [regex |-> "\\b(?:wake\\s+up|open\\s+your\\s+eyes|do\\s+your\\s+research)\\b",
        alts  |-> { << {"wake"}, {"up"} >>,
                    << {"open"}, {"your"}, {"eyes"} >>,
                    << {"do"}, {"your"}, {"research"} >> }],
       [regex |-> "\\b(?:sheeple|sheep|brainwashed|programmed)\\b",
        alts  |-> { << {"sheeple", "sheep", "brainwashed", "programmed"} >> }] >>

\* the regex assertion \b between positions pos-1 and pos of s
WordBoundary(s, pos) ==
    LET before == pos - 1 >= 1 /\ pos - 1 <= Len(s) /\ IsWordChar(Char(s, pos - 1))
        after  == pos >= 1 /\ pos <= Len(s) /\ IsWordChar(Char(s, pos))
    IN  before # after

\* groups g..Len(groups), separated by \s+, match s from position i on and
\* end at a word boundary
RECURSIVE MatchGroups(_, _, _, _)
MatchGroups(s, i, groups, g) ==
    \E w \in groups[g] :
        /\ OccursAt(s, i, w)
        /\ LET j == i + Len(w)
           IN  IF g = Len(groups)
               THEN WordBoundary(s, j)
               ELSE \E k \in 1..(Len(s) - j + 1) :
                        /\ \A m \in j..(j + k - 1) : IsSpace(Char(s, m))
                        /\ MatchGroups(s, j + k, groups, g + 1)

\* re.findall(pattern, text) is not empty
PatternMatches(pattern, s) ==
    \E i \in 1..Len(s) : \E alt \in pattern.alts :
        WordBoundary(s, i) /\ MatchGroups(s, i, alt, 1)

\* variant: one entry for each occurrence of a rule in the text, as if the
\* loops appended once per element of re.findall
detect_suspicious_patterns_per_occurrence(text) ==
    LET text_lower == lower(text)
        Positions(k) == { i \in 1..Len(text_lower) : OccursAt(text_lower, i, k) }
        Starts(p) == { i \in 1..Len(text_lower) :
                         \E alt \in p.alts : WordBoundary(text_lower, i)
                                             /\ MatchGroups(text_lower, i, alt, 1) }
        Entries(tag, n) == [i \in 1..n |-> tag]
        KwFrom[j \in 1..(Len(suspicious_keywords) + 1)] ==
            IF j > Len(suspicious_keywords) THEN << >>
            ELSE Entries("keyword_match:" \o suspicious_keywords[j],
                         Cardinality(Positions(suspicious_keywords[j])))
                     \o KwFrom[j + 1]
        PtFrom[j \in 1..(Len(suspicious_patterns) + 1)] ==
            IF j > Len(suspicious_patterns) THEN << >>
            ELSE Entries("pattern_match:" \o suspicious_patterns[j].regex,
                         Cardinality(Starts(suspicious_patterns[j])))
                     \o PtFrom[j + 1]
    IN  KwFrom[1] \o PtFrom[1]

\* the list detected_patterns; suspicious_detected is  Len(...) > 0
detect_suspicious_patterns(text) ==
    LET text_lower == lower(text)
        kw == SelectSeq(suspicious_keywords, LAMBDA k : Contains(text_lower, k))
        pt == SelectSeq(suspicious_patterns, LAMBDA p : PatternMatches(p, text_lower))
    IN  [i \in 1..Len(kw) |-> "keyword_match:" \o kw[i]]
            \o [i \in 1..Len(pt) |-> "pattern_match:" \o pt[i].regex]

(***************************************************************************)
(* Fusion: FakeNewsDetector._calculate_credibility_score                   *)
(***************************************************************************)
\* one unit of probability: a float p in [0,1] is the integer p * ProbScale
ProbScale == 10000

Min(a, b) == IF a < b THEN a ELSE b

Max(a, b) == IF a > b THEN a ELSE b

\* variant: round(model_score * 100), ties to even
IntOfPercent_rounded(model_score) ==
    LET q == (model_score * 100) \div ProbScale
        r == (model_score * 100) % ProbScale
    IN  IF 2 * r < ProbScale THEN q
        ELSE IF 2 * r > ProbScale THEN q + 1
        ELSE IF q % 2 = 0 THEN q ELSE q + 1

\* int(model_score * 100): truncation
IntOfPercent(model_score) == (model_score * 100) \div ProbScale

\* variant: the thresholds taken inclusively (<= 30, <= 70)
LabelOfScore_inclusive(final_score) ==
    IF final_score <= 30 THEN "reliable"
    ELSE IF final_score <= 70 THEN "suspicious"
    ELSE "fake"

LabelOfScore(final_score) ==
    IF final_score < 30 THEN "reliable"
    ELSE IF final_score < 70 THEN "suspicious"
    ELSE "fake"

\* variant: the adjusted score is not clamped to 0..100
calculate_credibility_score_unclamped(model_score, suspicious_detected, pattern_count) ==
    LET base_score  == IntOfPercent(model_score)
        final_score == IF suspicious_detected
                       THEN base_score + Min(pattern_count * 10, 30)
                       ELSE base_score
    IN  << final_score, LabelOfScore(final_score) >>

\* variant: the label is taken from the base score, before the bonus and the clamp
calculate_credibility_score_label_first(model_score, suspicious_detected, pattern_count) ==
    LET base_score  == IntOfPercent(model_score)
        adjusted    == IF suspicious_detected
                       THEN base_score + Min(pattern_count * 10, 30)
                       ELSE base_score
        final_score == Max(0, Min(100, adjusted))
    IN  << final_score, LabelOfScore(base_score) >>

\* returns <<final_score, label>>
calculate_credibility_score(model_score, suspicious_detected, pattern_count) ==
    LET base_score  == IntOfPercent(model_score)
        adjusted    == IF suspicious_detected
                       THEN base_score + Min(pattern_count * 10, 30)
                       ELSE base_score
        final_score == Max(0, Min(100, adjusted))
    IN  << final_score, LabelOfScore(final_score) >>

\* variant: the probability is cut to 3 decimals
Round3_truncated(model_score) ==
    LET step == ProbScale \div 1000
    IN  (model_score \div step) * step

\* round(model_score, 3), ties to even, in the same unit as model_score
Round3(model_score) ==
    LET step == ProbScale \div 1000
        q    == model_score \div step
        r    == model_score % step
    IN  IF 2 * r < step THEN q * step
        ELSE IF 2 * r > step THEN (q + 1) * step
        ELSE IF q % 2 = 0 THEN q * step ELSE (q + 1) * step

\* ','.join(patterns[:3])
RECURSIVE Join(_)
Join(items) ==
    IF items = << >> THEN ""
    ELSE IF Len(items) = 1 THEN items[1]
    ELSE items[1] \o "," \o Join(Tail(items))

First3(patterns) == SubSeq(patterns, 1, Min(3, Len(patterns)))

\* Python's None, and a present optional value
None == << >>

Some(v) == << v >>

\* variant: the thresholds of the reason taken inclusively (>= 0.8, >= 0.6)
ModelReason_inclusive(model_score, patterns) ==
    IF patterns # << >> THEN "pattern_detection:" \o Join(First3(patterns))
    ELSE IF model_score * 10 >= 8 * ProbScale THEN "high_model_confidence"
    ELSE IF model_score * 10 >= 6 * ProbScale THEN "moderate_model_confidence"
    ELSE "low_risk_patterns"

\* the reason chosen in analyze_text
ModelReason(model_score, patterns) ==
    IF patterns # << >> THEN "pattern_detection:" \o Join(First3(patterns))
    ELSE IF model_score * 10 > 8 * ProbScale THEN "high_model_confidence"
    ELSE IF model_score * 10 > 6 * ProbScale THEN "moderate_model_confidence"
    ELSE "low_risk_patterns"

\* the dict analyze_text returns for an input that sanitizes to nothing
InvalidInputResult ==
    [error  |-> "Invalid or empty text input",
     score  |-> 0,
     label  |-> "unknown",
     reason |-> "invalid_input"]

(***************************************************************************)
(* Cache: RedisCache                                                       *)
(***************************************************************************)
\* settings.CACHE_TTL_HOURS
CACHE_TTL_HOURS == 24

\* hashlib.md5(data.encode()).hexdigest(): a digest, taken as free of
\* collisions on the texts of the model
md5_hexdigest(data) == "md5(" \o data \o ")"

generate_key(prefix, data) == prefix \o ":" \o md5_hexdigest(data)

\* json.dumps of the value a result dict holds under key k: None becomes
\* null, True becomes true, numbers and strings are written out
JsonValue(k, v) ==
    IF k = "model_confidence"
    THEN (IF v = None THEN << "null" >> ELSE << "number", v[1] >>)
    ELSE IF k = "fallback_mode"
    THEN (IF v THEN << "true" >> ELSE << "false" >>)
    ELSE IF k \in {"score", "patterns_detected", "text_length"}
    THEN << "number", v >>
    ELSE << "string", v >>

\* the order in which the result dicts hold their keys
KeyOrder ==
    << "error", "score", "label", "reason", "model_confidence",
       "patterns_detected", "text_length", "fallback_mode" >>

\* json.dumps(value, default=str): the members of the dict, in order
json_dumps(value) ==
    LET keys == SelectSeq(KeyOrder, LAMBDA k : k \in DOMAIN value)
    IN  [i \in 1..Len(keys) |-> << keys[i], JsonValue(keys[i], value[keys[i]]) >>]

\* what json.loads makes of a member: null becomes None
PythonValue(k, j) ==
    IF j[1] = "null" THEN None
    ELSE IF j[1] = "true" THEN TRUE
    ELSE IF j[1] = "false" THEN FALSE
    ELSE IF k = "model_confidence" THEN Some(j[2])
    ELSE j[2]

\* json.loads(data)
json_loads(data) ==
    [k \in {data[i][1] : i \in 1..Len(data)} |->
        LET i == CHOOSE j \in 1..Len(data) : data[j][1] = k
        IN  PythonValue(k, data[i][2])]

(***************************************************************************)
(* Bounds and inputs                                                       *)
(***************************************************************************)
\* number of concurrent asyncio tasks
NumTasks == 2

\* total number of load_model / analyze_text calls made in one behaviour
MaxCalls == 2

Tasks == 1..NumTasks

NoTask == 0

\* the raw texts callers pass to analyze_text
RawInputs ==
    { NonText,
      Str(""),
      Str(" \t\n "),
      Str("<b> </b>"),
      Str("Local bakery wins regional award for best sourdough"),
      Str("  <b>Wake up sheeple!</b> The government is hiding the truth  ") }

\* what the classifier may answer for a text: model_result[0]
ClfOutputs ==
    { [label |-> "LABEL_1", score |-> ProbScale],
      [label |-> "LABEL_0", score |-> ProbScale - 4] }

\* the canonical texts of the model
CanonTexts == { sanitize_text(r) : r \in RawInputs } \ {""}

\* sanitize_text and detect_suspicious_patterns are pure; their values on the
\* inputs of the model are computed once, in Init, and read from there
VARIABLES
    sanitized,        \* raw input -> sanitize_text(raw)
    detected,         \* canonical text -> detect_suspicious_patterns(text)
    probe             \* a single application of a pure function: its arguments and
                      \* its value (used by the specifications of the pure functions)

Sanitize(r) == sanitized[r]

Detect(text) == detected[text]

(***************************************************************************)
(* The result dicts of analyze_text                                        *)
(***************************************************************************)
\* variant: the classifier's score is taken as the probability of fake
\* whatever the label
FakeProbability_uninverted(out) == out.score

\* model_result[0]: the probability that the text is fake
FakeProbability(out) ==
    IF out.label = "LABEL_0" THEN ProbScale - out.score ELSE out.score

\* the dict built on the model-backed path of analyze_text
ModelResult(text, out) ==
    LET model_score == FakeProbability(out)
        patterns    == Detect(text)
        sl          == calculate_credibility_score(model_score, Len(patterns) > 0,
                                                   Len(patterns))
    IN  [score             |-> sl[1],
         label             |-> sl[2],
         reason            |-> ModelReason(model_score, patterns),
         model_confidence  |-> Some(Round3(model_score)),
         patterns_detected |-> Len(patterns),
         text_length       |-> Len(text)]

\* variant: the fallback score is not capped at 90
fallback_analysis_uncapped(text) ==
    LET patterns == Detect(text)
        score    == IF Len(patterns) > 0 THEN 60 + Len(patterns) * 10 ELSE 20
        label    == IF Len(patterns) > 0
                    THEN (IF score < 80 THEN "suspicious" ELSE "fake")
                    ELSE "reliable"
        reason   == IF Len(patterns) > 0
                    THEN "fallback_pattern_detection:" \o Join(First3(patterns))
                    ELSE "fallback_low_risk"
    IN  [score             |-> score,
         label             |-> label,
         reason            |-> reason,
         model_confidence  |-> None,
         patterns_detected |-> Len(patterns),
         text_length       |-> Len(text),
         fallback_mode     |-> TRUE]

\* variant: the fallback label is taken from the thresholds of the model-backed path
fallback_analysis_model_labels(text) ==
    LET patterns == Detect(text)
        score    == IF Len(patterns) > 0 THEN Min(60 + Len(patterns) * 10, 90) ELSE 20
        reason   == IF Len(patterns) > 0
                    THEN "fallback_pattern_detection:" \o Join(First3(patterns))
                    ELSE "fallback_low_risk"
    IN  [score             |-> score,
         label             |-> LabelOfScore(score),
         reason            |-> reason,
         model_confidence  |-> None,
         patterns_detected |-> Len(patterns),
         text_length       |-> Len(text),
         fallback_mode     |-> TRUE]

\* FakeNewsDetector._fallback_analysis
fallback_analysis(text) ==
    LET patterns == Detect(text)
        score    == IF Len(patterns) > 0 THEN Min(60 + Len(patterns) * 10, 90) ELSE 20
        label    == IF Len(patterns) > 0
                    THEN (IF score < 80 THEN "suspicious" ELSE "fake")
                    ELSE "reliable"
        reason   == IF Len(patterns) > 0
                    THEN "fallback_pattern_detection:" \o Join(First3(patterns))
                    ELSE "fallback_low_risk"
    IN  [score             |-> score,
         label             |-> label,
         reason            |-> reason,
         model_confidence  |-> None,
         patterns_detected |-> Len(patterns),
         text_length       |-> Len(text),
         fallback_mode     |-> TRUE]

\* TextAnalysisResponse(**result) of the /analyze endpoint: the fields of the
\* response model, model_confidence and fallback_mode with their defaults
TextAnalysisResponse(result) ==
    [score             |-> result.score,
     label             |-> result.label,
     reason            |-> result.reason,
     model_confidence  |-> IF "model_confidence" \in DOMAIN result
                           THEN result.model_confidence ELSE None,
     patterns_detected |-> result.patterns_detected,
     text_length       |-> result.text_length,
     fallback_mode     |-> IF "fallback_mode" \in DOMAIN result
                           THEN result.fallback_mode ELSE FALSE]

(***************************************************************************)
(* State                                                                   *)
(***************************************************************************)
VARIABLES
    model_loaded,     \* FakeNewsDetector._model_loaded
    loading_lock,     \* FakeNewsDetector._loading_lock: the task holding it, or NoTask
    classifier,       \* the pipeline as a function text -> model_result[0], fixed
                      \* for a text by the first inference on it
    redis_client,     \* RedisCache.redis_client: "None" or "client"
    app_pc,           \* position of the application's lifespan
    store,            \* the Redis store: key -> [value, ttl]
    pc,               \* position of each task in its call
    kind,             \* the call a task is making: "analyze" or "load"
    raw,              \* argument of analyze_text
    sanitized_text,   \* local of analyze_text
    result,           \* what the call returned
    calls,            \* calls started so far
    \* history, read by the properties only
    loadAttempts,     \* load attempts completed so far
    loadFailed,       \* a load attempt has failed
    inWave,           \* the task entered load_model before any attempt completed
    waveAttempts,     \* load attempts performed by those tasks
    waveObserved,     \* classifier states those tasks found on return from load_model
    lookup,           \* outcome of the call's cache get: none, hit, miss, down
    setres,           \* outcome of the call's cache set: none, stored, down
    compute,          \* what the call computed: none, model, no_model, raised
    written,          \* key -> the dict last written under it
    lastCall,         \* the analyze call that returned last, if no entry expired since
    seq,              \* the task's call started right after lastCall, for the same text
    \* the HTTP layer, for one client address
    hits,             \* the limiter's storage: route -> requests counted in the
                      \* current window
    responses         \* <<route, status>> -> responses the client received in
                      \* the current window

codeVars == << sanitized, detected, model_loaded, loading_lock, classifier, redis_client, app_pc, store,
               pc, kind, raw, sanitized_text, result, calls >>

histVars == << loadAttempts, loadFailed, inWave, waveAttempts, waveObserved, lookup, setres,
               compute, written, lastCall, seq >>

memoVars == << sanitized, detected, probe >>

NoProbe == [fn |-> "none"]

limitVars == << hits, responses >>

vars == << codeVars, histVars, probe, limitVars >>

NoResult == [none |-> TRUE]

\* what the caller gets when an exception leaves analyze_text
Raised == [raised |-> TRUE]

NoCall == [none |-> TRUE]

\* setex's argument: ttl_hours * 3600 seconds
TtlSeconds(ttl_hours) == ttl_hours * 3600

\* entries an earlier process left in the store: none, or one model-backed
\* result of the same classifier
LegacyWorlds ==
    { [store |-> << >>, classifier |-> << >>, written |-> << >>] }
    \cup
    { [store      |-> [k \in {generate_key("model", x)} |->
                          [value |-> json_dumps(ModelResult(x, out)),
                           ttl   |-> TtlSeconds(CACHE_TTL_HOURS)]],
       classifier |-> [y \in {x} |-> out],
       written    |-> [k \in {generate_key("model", x)} |-> ModelResult(x, out)]]
      : x \in {"Local bakery wins regional award for best sourdough"},
        out \in {[label |-> "LABEL_0", score |-> ProbScale - 4]} }

\* the values of the pure functions on the raw inputs and the texts in use
InitMemo(raws, texts) ==
    /\ sanitized = [r \in raws |-> sanitize_text(r)]
    /\ detected = [x \in texts |-> detect_suspicious_patterns(x)]

\* the state after construction of the detector and of the cache
InitCache ==
    /\ \E w \in LegacyWorlds :
         store = w.store /\ classifier = w.classifier /\ written = w.written
    /\ redis_client = "None"

\* the detector after construction, no call made yet
InitCalls ==
    /\ model_loaded = FALSE
    /\ loading_lock = NoTask
    /\ pc = [t \in Tasks |-> "idle"]
    /\ kind = [t \in Tasks |-> "none"]
    /\ raw = [t \in Tasks |-> NonText]
    /\ sanitized_text = [t \in Tasks |-> ""]
    /\ result = [t \in Tasks |-> NoResult]
    /\ calls = 0
    /\ loadAttempts = 0
    /\ loadFailed = FALSE
    /\ inWave = [t \in Tasks |-> FALSE]
    /\ waveAttempts = 0
    /\ waveObserved = {}
    /\ lookup = [t \in Tasks |-> "none"]
    /\ setres = [t \in Tasks |-> "none"]
    /\ compute = [t \in Tasks |-> "none"]
    /\ lastCall = NoCall
    /\ seq = [t \in Tasks |-> FALSE]

InitTasks == InitCalls /\ app_pc = "start"

\* settings.RATE_LIMIT_PER_MINUTE
RATE_LIMIT_PER_MINUTE == 10

\* the routes of the application the client calls
Routes == {"health", "analyze"}

\* the routes decorated with @limiter.limit; the Limiter has no default limit
LimitedRoutes == {"analyze"}

\* 200 OK, 401 Unauthorized, 429 Too Many Requests
Statuses == {200, 401, 429}

\* limiter = Limiter(key_func=get_remote_address): nothing counted yet
InitLimiter ==
    /\ hits = [r \in LimitedRoutes |-> 0]
    /\ responses = [x \in Routes \X Statuses |-> 0]

InitState == InitCache /\ InitTasks /\ InitLimiter

InitProgram == InitMemo(RawInputs, CanonTexts) /\ InitState

Init == InitProgram /\ probe = NoProbe

(***************************************************************************)
(* RedisCache operations.  "fails" says whether the Redis call raises      *)
(* (server unreachable, timeout).                                          *)
(***************************************************************************)
\* redis_client.get(key)
redis_get(key, fails) ==
    IF fails THEN [raised |-> TRUE, data |-> None]
    ELSE [raised |-> FALSE,
          data   |-> IF key \in DOMAIN store THEN Some(store[key].value) ELSE None]

\* variant: no try/except around the Redis call, its exception leaves get
cache_get_unguarded(key, fails) ==
    IF redis_client = "None" THEN [raised |-> FALSE, value |-> None]
    ELSE LET r == redis_get(key, fails)
         IN  IF r.raised
             THEN [raised |-> TRUE, value |-> None]
             ELSE [raised |-> FALSE,
                   value  |-> IF r.data # None THEN Some(json_loads(r.data[1]))
                              ELSE None]

\* variant: a value read from the store is marked as cached
cache_get_flagged(key, fails) ==
    IF redis_client = "None" THEN [raised |-> FALSE, value |-> None]
    ELSE LET r == redis_get(key, fails)
         IN  IF r.raised
             THEN [raised |-> FALSE, value |-> None]
             ELSE [raised |-> FALSE,
                   value  |-> IF r.data # None
                              THEN LET d == json_loads(r.data[1])
                                   IN  Some([k \in DOMAIN d \cup {"cached"} |->
                                                IF k = "cached" THEN TRUE ELSE d[k]])
                              ELSE None]

\* RedisCache.get
cache_get(key, fails) ==
    IF redis_client = "None" THEN [raised |-> FALSE, value |-> None]
    ELSE LET r == redis_get(key, fails)
         IN  IF r.raised
             THEN [raised |-> FALSE, value |-> None]
             ELSE [raised |-> FALSE,
                   value  |-> IF r.data # None THEN Some(json_loads(r.data[1]))
                              ELSE None]

\* RedisCache.get_model_prediction
get_model_prediction(text, fails) == cache_get(generate_key("model", text), fails)

\* redis.call('ttl', key) of a key that exists: -1 if it has no TTL
NoTtl == 0 - 1

\* redis_client.setex(key, ttl_seconds, data): the store afterwards
redis_setex(key, ttl_seconds, data) ==
    [k \in DOMAIN store \cup {key} |->
        IF k = key THEN [value |-> data, ttl |-> ttl_seconds] ELSE store[k]]

\* variant: set reports success without calling setex
cache_set_dropped(key, value, ttl_hours, fails) ==
    IF redis_client = "None" THEN [raised |-> FALSE, ok |-> FALSE, store |-> store]
    ELSE IF fails
         THEN [raised |-> FALSE, ok |-> FALSE, store |-> store]
         ELSE [raised |-> FALSE, ok |-> TRUE, store |-> store]

\* variant: the value is written with SET, without an expiry
cache_set_no_expiry(key, value, ttl_hours, fails) ==
    IF redis_client = "None" THEN [raised |-> FALSE, ok |-> FALSE, store |-> store]
    ELSE IF fails
         THEN [raised |-> FALSE, ok |-> FALSE, store |-> store]
         ELSE [raised |-> FALSE, ok |-> TRUE,
               store  |-> [k \in DOMAIN store \cup {key} |->
                              IF k = key
                              THEN [value |-> json_dumps(value), ttl |-> NoTtl]
                              ELSE store[k]]]

\* RedisCache.set: the value returned and the store afterwards
cache_set(key, value, ttl_hours, fails) ==
    IF redis_client = "None" THEN [raised |-> FALSE, ok |-> FALSE, store |-> store]
    ELSE IF fails
         THEN [raised |-> FALSE, ok |-> FALSE, store |-> store]
         ELSE [raised |-> FALSE, ok |-> TRUE,
               store  |-> redis_setex(key, TtlSeconds(ttl_hours), json_dumps(value))]

\* settings.API_CACHE_TTL_HOURS
API_CACHE_TTL_HOURS == 1

\* variant: the prediction is stored with the TTL of API responses
set_model_prediction_api_ttl(text, prediction, fails) ==
    cache_set(generate_key("model", text), prediction, API_CACHE_TTL_HOURS, fails)

\* RedisCache.set_model_prediction
set_model_prediction(text, prediction, fails) ==
    cache_set(generate_key("model", text), prediction, CACHE_TTL_HOURS, fails)

\* variant: delete calls Redis without the test of the client and outside try
cache_delete_unguarded(key, fails) ==
    IF redis_client = "None" \/ fails
    THEN [raised |-> TRUE, ok |-> FALSE, store |-> store]
    ELSE [raised |-> FALSE, ok |-> TRUE,
          store  |-> [k \in DOMAIN store \ {key} |-> store[k]]]

\* RedisCache.delete: the value returned and the store afterwards
cache_delete(key, fails) ==
    IF redis_client = "None" THEN [raised |-> FALSE, ok |-> FALSE, store |-> store]
    ELSE IF fails
         THEN [raised |-> FALSE, ok |-> FALSE, store |-> store]
         ELSE [raised |-> FALSE, ok |-> TRUE,
               store  |-> [k \in DOMAIN store \ {key} |-> store[k]]]

\* redis.call('keys', ARGV[1]) for a pattern that ends in '*'
KeysMatching(pattern) ==
    LET prefix == SubSeq(pattern, 1, Len(pattern) - 1)
    IN  { k \in DOMAIN store :
            Len(k) >= Len(prefix) /\ SubSeq(k, 1, Len(prefix)) = prefix }

\* variant: the script deletes every key that matches, with or without a TTL
sweep_script_any_ttl(pattern) ==
    LET doomed == KeysMatching(pattern)
    IN  [deleted |-> Cardinality(doomed),
         store   |-> [k \in DOMAIN store \ doomed |-> store[k]]]

\* the Lua script of clear_expired for the pattern: the number of keys
\* deleted and the store afterwards
sweep_script(pattern) ==
    LET doomed == { k \in KeysMatching(pattern) : store[k].ttl = NoTtl }
    IN  [deleted |-> Cardinality(doomed),
         store   |-> [k \in DOMAIN store \ doomed |-> store[k]]]

\* variant: the sweep scans every key of the store
clear_expired_everywhere(fails) ==
    IF redis_client = "None" THEN [raised |-> FALSE, deleted |-> 0, store |-> store]
    ELSE IF fails
         THEN [raised |-> FALSE, deleted |-> 0, store |-> store]
         ELSE LET r == sweep_script("*")
              IN  [raised |-> FALSE, deleted |-> r.deleted, store |-> r.store]

\* RedisCache.clear_expired: the value returned and the store afterwards
clear_expired(fails) ==
    IF redis_client = "None" THEN [raised |-> FALSE, deleted |-> 0, store |-> store]
    ELSE IF fails
         THEN [raised |-> FALSE, deleted |-> 0, store |-> store]
         ELSE LET r == sweep_script("model:*")
              IN  [raised |-> FALSE, deleted |-> r.deleted, store |-> r.store]

(***************************************************************************)
(* Scheduling.  asyncio runs a task without interruption from one await to *)
(* the next: another task, or the environment, takes a step only when no   *)
(* task is between two awaits.  The positions at which a task waits are    *)
(* the await of the cache get, the await of the loading lock, the load     *)
(* itself (which may run while other tasks are scheduled) and the await of *)
(* the cache set.                                                          *)
(***************************************************************************)
Suspended(t) == pc[t] \in {"idle", "cache_get", "lock_wait", "loading", "cache_set"}

LoopFree == \A u \in Tasks : Suspended(u)

(***************************************************************************)
(* Calls                                                                   *)
(***************************************************************************)
\* analyze_text(raw), up to the await of the cache get
CallAnalyze(t, r) ==
    /\ LoopFree
    /\ pc[t] = "idle"
    /\ calls < MaxCalls
    /\ calls' = calls + 1
    /\ kind' = [kind EXCEPT ![t] = "analyze"]
    /\ raw' = [raw EXCEPT ![t] = r]
    /\ LET text == Sanitize(r)
       IN  /\ sanitized_text' = [sanitized_text EXCEPT ![t] = text]
           /\ IF text = ""
              THEN /\ result' = [result EXCEPT ![t] = InvalidInputResult]
                   /\ pc' = [pc EXCEPT ![t] = "done"]
              ELSE /\ result' = [result EXCEPT ![t] = NoResult]
                   /\ pc' = [pc EXCEPT ![t] = "cache_get"]
           /\ seq' = [seq EXCEPT ![t] = lastCall # NoCall /\ lastCall.text = text]
    /\ UNCHANGED << model_loaded, loading_lock, classifier, redis_client, app_pc, store >>
    /\ UNCHANGED << loadAttempts, loadFailed, inWave, waveAttempts, waveObserved, lookup,
                    setres, compute, written, lastCall >>
    /\ UNCHANGED << memoVars, limitVars >>

\* a direct call of load_model, as the lifespan's preload makes
CallLoadModel(t) ==
    /\ LoopFree
    /\ pc[t] = "idle"
    /\ calls < MaxCalls
    /\ calls' = calls + 1
    /\ kind' = [kind EXCEPT ![t] = "load"]
    /\ pc' = [pc EXCEPT ![t] = "load_model"]
    /\ UNCHANGED << model_loaded, loading_lock, classifier, redis_client, app_pc, store,
                    raw, sanitized_text, result >>
    /\ UNCHANGED histVars
    /\ UNCHANGED << memoVars, limitVars >>

\* variant: the model is loaded before the cached result is returned
CacheGet_loading(t) ==
    /\ LoopFree
    /\ pc[t] = "cache_get"
    /\ \E fails \in BOOLEAN :
         LET r    == get_model_prediction(sanitized_text[t], fails)
             down == redis_client = "None" \/ fails
         IN  IF r.raised
             THEN /\ result' = [result EXCEPT ![t] = Raised]
                  /\ pc' = [pc EXCEPT ![t] = "done"]
                  /\ lookup' = [lookup EXCEPT ![t] = "down"]
             ELSE IF r.value # None /\ DOMAIN r.value[1] # {}
             THEN /\ result' = [result EXCEPT ![t] = r.value[1]]
                  /\ pc' = [pc EXCEPT ![t] = "load_model"]
                  /\ lookup' = [lookup EXCEPT ![t] = "hit"]
             ELSE /\ pc' = [pc EXCEPT ![t] = "load_model"]
                  /\ lookup' = [lookup EXCEPT ![t] = IF down THEN "down" ELSE "miss"]
                  /\ UNCHANGED result
    /\ UNCHANGED << model_loaded, loading_lock, classifier, redis_client, app_pc, store,
                    kind, raw, sanitized_text, calls >>
    /\ UNCHANGED << loadAttempts, loadFailed, inWave, waveAttempts, waveObserved,
                    setres, compute, written, lastCall, seq >>
    /\ UNCHANGED << memoVars, limitVars >>

\* cached_result = await cache.get_model_prediction(sanitized_text), and the
\* test of cached_result
CacheGet(t) ==
    /\ LoopFree
    /\ pc[t] = "cache_get"
    /\ \E fails \in BOOLEAN :
         LET r    == get_model_prediction(sanitized_text[t], fails)
             down == redis_client = "None" \/ fails
         IN  IF r.raised
             THEN /\ result' = [result EXCEPT ![t] = Raised]
                  /\ pc' = [pc EXCEPT ![t] = "done"]
                  /\ lookup' = [lookup EXCEPT ![t] = "down"]
             ELSE IF r.value # None /\ DOMAIN r.value[1] # {}
             THEN /\ result' = [result EXCEPT ![t] = r.value[1]]
                  /\ pc' = [pc EXCEPT ![t] = "done"]
                  /\ lookup' = [lookup EXCEPT ![t] = "hit"]
             ELSE /\ pc' = [pc EXCEPT ![t] = "load_model"]
                  /\ lookup' = [lookup EXCEPT ![t] = IF down THEN "down" ELSE "miss"]
                  /\ UNCHANGED result
    /\ UNCHANGED << model_loaded, loading_lock, classifier, redis_client, app_pc, store,
                    kind, raw, sanitized_text, calls >>
    /\ UNCHANGED << loadAttempts, loadFailed, inWave, waveAttempts, waveObserved,
                    setres, compute, written, lastCall, seq >>
    /\ UNCHANGED << memoVars, limitVars >>

\* variant: load_model without the first test of the flag, every caller goes
\* for the lock
LoadModelEnter_unchecked(t) ==
    /\ pc[t] = "load_model"
    /\ pc' = [pc EXCEPT ![t] = "lock_wait"]
    /\ inWave' = [inWave EXCEPT ![t] = (loadAttempts = 0)]
    /\ UNCHANGED << model_loaded, loading_lock, classifier, redis_client, app_pc, store,
                    kind, raw, sanitized_text, result, calls >>
    /\ UNCHANGED << loadAttempts, loadFailed, waveAttempts, waveObserved, lookup,
                    setres, compute, written, lastCall, seq >>
    /\ UNCHANGED << memoVars, limitVars >>

\* load_model: the first test of _model_loaded
LoadModelEnter(t) ==
    /\ pc[t] = "load_model"
    /\ IF model_loaded
       THEN /\ pc' = [pc EXCEPT ![t] = "loaded"]
            /\ UNCHANGED inWave
       ELSE /\ pc' = [pc EXCEPT ![t] = "lock_wait"]
            /\ inWave' = [inWave EXCEPT ![t] = (loadAttempts = 0)]
    /\ UNCHANGED << model_loaded, loading_lock, classifier, redis_client, app_pc, store,
                    kind, raw, sanitized_text, result, calls >>
    /\ UNCHANGED << loadAttempts, loadFailed, waveAttempts, waveObserved, lookup,
                    setres, compute, written, lastCall, seq >>
    /\ UNCHANGED << memoVars, limitVars >>

\* variant: no second test of the flag under the lock
LockAcquire_unchecked(t) ==
    /\ LoopFree
    /\ pc[t] = "lock_wait"
    /\ loading_lock = NoTask
    /\ pc' = [pc EXCEPT ![t] = "loading"]
    /\ loading_lock' = t
    /\ UNCHANGED waveObserved
    /\ UNCHANGED << model_loaded, classifier, redis_client, app_pc, store,
                    kind, raw, sanitized_text, result, calls >>
    /\ UNCHANGED << loadAttempts, loadFailed, inWave, waveAttempts, lookup, setres,
                    compute, written, lastCall, seq >>
    /\ UNCHANGED << memoVars, limitVars >>

\* variant: the lock is taken without waiting for its release
LockAcquire_unlocked(t) ==
    /\ LoopFree
    /\ pc[t] = "lock_wait"
    /\ IF model_loaded
       THEN /\ pc' = [pc EXCEPT ![t] = "loaded"]
            /\ waveObserved' = IF inWave[t] THEN waveObserved \cup {"Ready"}
                               ELSE waveObserved
            /\ UNCHANGED loading_lock
       ELSE /\ pc' = [pc EXCEPT ![t] = "loading"]
            /\ loading_lock' = t
            /\ UNCHANGED waveObserved
    /\ UNCHANGED << model_loaded, classifier, redis_client, app_pc, store,
                    kind, raw, sanitized_text, result, calls >>
    /\ UNCHANGED << loadAttempts, loadFailed, inWave, waveAttempts, lookup, setres,
                    compute, written, lastCall, seq >>
    /\ UNCHANGED << memoVars, limitVars >>

\* async with self._loading_lock, and the second test of _model_loaded
LockAcquire(t) ==
    /\ LoopFree
    /\ pc[t] = "lock_wait"
    /\ loading_lock = NoTask
    /\ IF model_loaded
       THEN /\ pc' = [pc EXCEPT ![t] = "loaded"]
            /\ waveObserved' = IF inWave[t] THEN waveObserved \cup {"Ready"}
                               ELSE waveObserved
            /\ UNCHANGED loading_lock
       ELSE /\ pc' = [pc EXCEPT ![t] = "loading"]
            /\ loading_lock' = t
            /\ UNCHANGED waveObserved
    /\ UNCHANGED << model_loaded, classifier, redis_client, app_pc, store,
                    kind, raw, sanitized_text, result, calls >>
    /\ UNCHANGED << loadAttempts, loadFailed, inWave, waveAttempts, lookup, setres,
                    compute, written, lastCall, seq >>
    /\ UNCHANGED << memoVars, limitVars >>

\* the try block of load_model: the load succeeds (ok) or raises; the flag is
\* set either way and the lock is released
LoadFinish(t, ok) ==
    /\ LoopFree
    /\ pc[t] = "loading"
    /\ model_loaded' = ok
    /\ loading_lock' = NoTask
    /\ pc' = [pc EXCEPT ![t] = "loaded"]
    /\ loadAttempts' = loadAttempts + 1
    /\ loadFailed' = (loadFailed \/ ~ok)
    /\ waveAttempts' = IF inWave[t] THEN waveAttempts + 1 ELSE waveAttempts
    /\ waveObserved' = IF inWave[t]
                       THEN waveObserved \cup {IF ok THEN "Ready" ELSE "Failed"}
                       ELSE waveObserved
    /\ UNCHANGED << classifier, redis_client, app_pc, store,
                    kind, raw, sanitized_text, result, calls >>
    /\ UNCHANGED << inWave, lookup, setres, compute, written, lastCall, seq >>
    /\ UNCHANGED << memoVars, limitVars >>

\* a direct call of load_model returns
LoadReturn(t) ==
    /\ pc[t] = "loaded"
    /\ kind[t] = "load"
    /\ pc' = [pc EXCEPT ![t] = "done"]
    /\ UNCHANGED << model_loaded, loading_lock, classifier, redis_client, app_pc, store,
                    kind, raw, sanitized_text, result, calls >>
    /\ UNCHANGED histVars
    /\ UNCHANGED << memoVars, limitVars >>

\* variant: the detector keeps its list of detected patterns from call to
\* call, so the count of the fallback grows with the calls made
AnalyzeNoModel_accumulating(t) ==
    /\ pc[t] = "loaded"
    /\ kind[t] = "analyze"
    /\ ~model_loaded
    /\ result' = [result EXCEPT ![t] =
                     [fallback_analysis(sanitized_text[t]) EXCEPT
                         !.patterns_detected = @ + calls - 1]]
    /\ compute' = [compute EXCEPT ![t] = "no_model"]
    /\ pc' = [pc EXCEPT ![t] = "done"]
    /\ UNCHANGED << model_loaded, loading_lock, classifier, redis_client, app_pc, store,
                    kind, raw, sanitized_text, calls >>
    /\ UNCHANGED << loadAttempts, loadFailed, inWave, waveAttempts, waveObserved, lookup,
                    setres, written, lastCall, seq >>
    /\ UNCHANGED << memoVars, limitVars >>

\* variant: the fallback result is handed to the cache set like a model-backed one
AnalyzeNoModel_cached(t) ==
    /\ pc[t] = "loaded"
    /\ kind[t] = "analyze"
    /\ ~model_loaded
    /\ result' = [result EXCEPT ![t] = fallback_analysis(sanitized_text[t])]
    /\ compute' = [compute EXCEPT ![t] = "no_model"]
    /\ pc' = [pc EXCEPT ![t] = "cache_set"]
    /\ UNCHANGED << model_loaded, loading_lock, classifier, redis_client, app_pc, store,
                    kind, raw, sanitized_text, calls >>
    /\ UNCHANGED << loadAttempts, loadFailed, inWave, waveAttempts, waveObserved, lookup,
                    setres, written, lastCall, seq >>
    /\ UNCHANGED << memoVars, limitVars >>

\* analyze_text after load_model: if not self._model_loaded, the fallback
AnalyzeNoModel(t) ==
    /\ pc[t] = "loaded"
    /\ kind[t] = "analyze"
    /\ ~model_loaded
    /\ result' = [result EXCEPT ![t] = fallback_analysis(sanitized_text[t])]
    /\ compute' = [compute EXCEPT ![t] = "no_model"]
    /\ pc' = [pc EXCEPT ![t] = "done"]
    /\ UNCHANGED << model_loaded, loading_lock, classifier, redis_client, app_pc, store,
                    kind, raw, sanitized_text, calls >>
    /\ UNCHANGED << loadAttempts, loadFailed, inWave, waveAttempts, waveObserved, lookup,
                    setres, written, lastCall, seq >>
    /\ UNCHANGED << memoVars, limitVars >>

\* variant: no except clause, the exception of the pipeline leaves analyze_text
AnalyzeRaise_propagates(t) ==
    /\ pc[t] = "loaded"
    /\ kind[t] = "analyze"
    /\ model_loaded
    /\ result' = [result EXCEPT ![t] = Raised]
    /\ compute' = [compute EXCEPT ![t] = "raised"]
    /\ pc' = [pc EXCEPT ![t] = "done"]
    /\ UNCHANGED << model_loaded, loading_lock, classifier, redis_client, app_pc, store,
                    kind, raw, sanitized_text, calls >>
    /\ UNCHANGED << loadAttempts, loadFailed, inWave, waveAttempts, waveObserved, lookup,
                    setres, written, lastCall, seq >>
    /\ UNCHANGED << memoVars, limitVars >>

\* variant: an exception of the pipeline marks the model as not loaded
AnalyzeRaise_unloading(t) ==
    /\ pc[t] = "loaded"
    /\ kind[t] = "analyze"
    /\ model_loaded
    /\ model_loaded' = FALSE
    /\ result' = [result EXCEPT ![t] = fallback_analysis(sanitized_text[t])]
    /\ compute' = [compute EXCEPT ![t] = "raised"]
    /\ pc' = [pc EXCEPT ![t] = "done"]
    /\ UNCHANGED << loading_lock, classifier, redis_client, app_pc, store,
                    kind, raw, sanitized_text, calls >>
    /\ UNCHANGED << loadAttempts, loadFailed, inWave, waveAttempts, waveObserved, lookup,
                    setres, written, lastCall, seq >>
    /\ UNCHANGED << memoVars, limitVars >>

\* the pipeline call raises: except Exception, the fallback
AnalyzeRaise(t) ==
    /\ pc[t] = "loaded"
    /\ kind[t] = "analyze"
    /\ model_loaded
    /\ result' = [result EXCEPT ![t] = fallback_analysis(sanitized_text[t])]
    /\ compute' = [compute EXCEPT ![t] = "raised"]
    /\ pc' = [pc EXCEPT ![t] = "done"]
    /\ UNCHANGED << model_loaded, loading_lock, classifier, redis_client, app_pc, store,
                    kind, raw, sanitized_text, calls >>
    /\ UNCHANGED << loadAttempts, loadFailed, inWave, waveAttempts, waveObserved, lookup,
                    setres, written, lastCall, seq >>
    /\ UNCHANGED << memoVars, limitVars >>

\* the pipeline answers out; the result dict is built, up to the await of the cache set
AnalyzeModel(t, out) ==
    /\ pc[t] = "loaded"
    /\ kind[t] = "analyze"
    /\ model_loaded
    /\ sanitized_text[t] \in DOMAIN classifier => classifier[sanitized_text[t]] = out
    /\ classifier' = [x \in DOMAIN classifier \cup {sanitized_text[t]} |->
                         IF x = sanitized_text[t] THEN out ELSE classifier[x]]
    /\ result' = [result EXCEPT ![t] = ModelResult(sanitized_text[t], out)]
    /\ compute' = [compute EXCEPT ![t] = "model"]
    /\ pc' = [pc EXCEPT ![t] = "cache_set"]
    /\ UNCHANGED << model_loaded, loading_lock, redis_client, app_pc, store,
                    kind, raw, sanitized_text, calls >>
    /\ UNCHANGED << loadAttempts, loadFailed, inWave, waveAttempts, waveObserved, lookup,
                    setres, written, lastCall, seq >>
    /\ UNCHANGED << memoVars, limitVars >>

\* await cache.set_model_prediction(sanitized_text, result), and return result;
\* the await is inside the try block: an exception of it ends in the fallback
CacheSet(t) ==
    /\ LoopFree
    /\ pc[t] = "cache_set"
    /\ \E fails \in BOOLEAN :
         LET r == set_model_prediction(sanitized_text[t], result[t], fails)
         IN  /\ store' = r.store
             /\ IF r.raised
                THEN /\ result' = [result EXCEPT ![t] =
                                       fallback_analysis(sanitized_text[t])]
                     /\ compute' = [compute EXCEPT ![t] = "raised"]
                ELSE UNCHANGED << result, compute >>
             /\ setres' = [setres EXCEPT ![t] =
                              IF redis_client = "None" \/ fails THEN "down" ELSE "stored"]
    /\ written' = IF store' = store THEN written
                  ELSE [k \in DOMAIN store' |->
                           IF k = generate_key("model", sanitized_text[t])
                           THEN result[t] ELSE written[k]]
    /\ pc' = [pc EXCEPT ![t] = "done"]
    /\ UNCHANGED << model_loaded, loading_lock, classifier, redis_client, app_pc,
                    kind, raw, sanitized_text, calls >>
    /\ UNCHANGED << loadAttempts, loadFailed, inWave, waveAttempts, waveObserved, lookup,
                    lastCall, seq >>
    /\ UNCHANGED << memoVars, limitVars >>

\* the store served the call: no store operation of the call failed
Undisturbed(t) == lookup[t] # "down" /\ setres[t] # "down"

\* the caller takes the result; the history of the call is cleared
Return(t) ==
    /\ pc[t] = "done"
    /\ pc' = [pc EXCEPT ![t] = "idle"]
    /\ lastCall' = IF kind[t] # "analyze" THEN lastCall
                   ELSE IF sanitized_text[t] # "" /\ Undisturbed(t)
                   THEN [text |-> sanitized_text[t], result |-> result[t],
                         compute |-> compute[t]]
                   ELSE NoCall
    /\ seq' = IF kind[t] = "analyze" THEN [u \in Tasks |-> FALSE] ELSE seq
    /\ kind' = [kind EXCEPT ![t] = "none"]
    /\ raw' = [raw EXCEPT ![t] = NonText]
    /\ sanitized_text' = [sanitized_text EXCEPT ![t] = ""]
    /\ result' = [result EXCEPT ![t] = NoResult]
    /\ inWave' = [inWave EXCEPT ![t] = FALSE]
    /\ lookup' = [lookup EXCEPT ![t] = "none"]
    /\ setres' = [setres EXCEPT ![t] = "none"]
    /\ compute' = [compute EXCEPT ![t] = "none"]
    /\ UNCHANGED << model_loaded, loading_lock, classifier, redis_client, app_pc, store,
                    calls >>
    /\ UNCHANGED << loadAttempts, loadFailed, waveAttempts, waveObserved, written >>
    /\ UNCHANGED << memoVars, limitVars >>

(***************************************************************************)
(* Environment: the application's lifespan and the passing of time         *)
(***************************************************************************)
\* cache.connect(): the client is assigned, then the ping is awaited
ConnectBegin ==
    /\ LoopFree
    /\ app_pc = "start"
    /\ redis_client = "None"
    /\ redis_client' = "client"
    /\ app_pc' = "ping"
    /\ UNCHANGED << model_loaded, loading_lock, classifier, store,
                    pc, kind, raw, sanitized_text, result, calls >>
    /\ UNCHANGED histVars
    /\ UNCHANGED << memoVars, limitVars >>

\* the ping answers, or raises and the client is dropped
ConnectEnd(ok) ==
    /\ LoopFree
    /\ app_pc = "ping"
    /\ redis_client' = IF ok THEN redis_client ELSE "None"
    /\ app_pc' = "serving"
    /\ UNCHANGED << model_loaded, loading_lock, classifier, store,
                    pc, kind, raw, sanitized_text, result, calls >>
    /\ UNCHANGED histVars
    /\ UNCHANGED << memoVars, limitVars >>

\* cache.disconnect() at shutdown
Disconnect ==
    /\ LoopFree
    /\ app_pc = "serving"
    /\ redis_client' = "None"
    /\ app_pc' = "stopped"
    /\ UNCHANGED << model_loaded, loading_lock, classifier, store,
                    pc, kind, raw, sanitized_text, result, calls >>
    /\ UNCHANGED histVars
    /\ UNCHANGED << memoVars, limitVars >>

\* an entry's TTL runs out and Redis drops it
Expire(k) ==
    /\ LoopFree
    /\ k \in DOMAIN store
    /\ store[k].ttl > 0
    /\ store' = [j \in DOMAIN store \ {k} |-> store[j]]
    /\ lastCall' = NoCall
    /\ seq' = [t \in Tasks |-> FALSE]
    /\ UNCHANGED << model_loaded, loading_lock, classifier, redis_client, app_pc,
                    pc, kind, raw, sanitized_text, result, calls >>
    /\ written' = [j \in DOMAIN store \ {k} |-> written[j]]
    /\ UNCHANGED << loadAttempts, loadFailed, inWave, waveAttempts, waveObserved, lookup,
                    setres, compute >>
    /\ UNCHANGED << memoVars, limitVars >>

Next ==
    \/ \E t \in Tasks : \E r \in RawInputs : CallAnalyze(t, r)
    \/ \E t \in Tasks : CallLoadModel(t)
    \/ \E t \in Tasks : CacheGet(t)
    \/ \E t \in Tasks : LoadModelEnter(t)
    \/ \E t \in Tasks : LockAcquire(t)
    \/ \E t \in Tasks : \E ok \in BOOLEAN : LoadFinish(t, ok)
    \/ \E t \in Tasks : LoadReturn(t)
    \/ \E t \in Tasks : AnalyzeNoModel(t)
    \/ \E t \in Tasks : AnalyzeRaise(t)
    \/ \E t \in Tasks : \E out \in ClfOutputs : AnalyzeModel(t, out)
    \/ \E t \in Tasks : CacheSet(t)
    \/ \E t \in Tasks : Return(t)
    \/ ConnectBegin
    \/ \E ok \in BOOLEAN : ConnectEnd(ok)
    \/ Disconnect
    \/ \E k \in DOMAIN store : Expire(k)

Spec == Init /\ [][Next]_vars

\* what the caller gets when the call's task is cancelled
Cancelled == [cancelled |-> TRUE]

\* variant: a task cancelled while it waits for a free lock goes away with
\* the lock taken
Cancel_holding(t) ==
    /\ LoopFree
    /\ pc[t] \in {"cache_get", "lock_wait", "cache_set"}
    /\ result' = [result EXCEPT ![t] = Cancelled]
    /\ pc' = [pc EXCEPT ![t] = "done"]
    /\ loading_lock' = IF pc[t] = "lock_wait" /\ loading_lock = NoTask
                       THEN t ELSE loading_lock
    /\ UNCHANGED << store, written >>
    /\ UNCHANGED << model_loaded, classifier, redis_client, app_pc,
                    kind, raw, sanitized_text, calls >>
    /\ UNCHANGED << loadAttempts, loadFailed, inWave, waveAttempts, waveObserved, lookup,
                    setres, compute, lastCall, seq >>
    /\ UNCHANGED << memoVars, limitVars >>

\* the task of a call is cancelled at one of its awaits: the cache get, the
\* loading lock, the cache set.  CancelledError is raised there; it is not an
\* Exception, so no except clause of the cache or of analyze_text takes it,
\* and it leaves the call.  A setex already sent may still take effect
\* (landed).
Cancel(t) ==
    /\ LoopFree
    /\ pc[t] \in {"cache_get", "lock_wait", "cache_set"}
    /\ result' = [result EXCEPT ![t] = Cancelled]
    /\ pc' = [pc EXCEPT ![t] = "done"]
    /\ \E landed \in BOOLEAN :
         store' = IF landed /\ pc[t] = "cache_set"
                  THEN set_model_prediction(sanitized_text[t], result[t], FALSE).store
                  ELSE store
    /\ written' = IF store' = store THEN written
                  ELSE [k \in DOMAIN store' |->
                           IF k = generate_key("model", sanitized_text[t])
                           THEN result[t] ELSE written[k]]
    /\ UNCHANGED << model_loaded, loading_lock, classifier, redis_client, app_pc,
                    kind, raw, sanitized_text, calls >>
    /\ UNCHANGED << loadAttempts, loadFailed, inWave, waveAttempts, waveObserved, lookup,
                    setres, compute, lastCall, seq >>
    /\ UNCHANGED << memoVars, limitVars >>

\* the steps of a call that has been made: each runs to completion once the
\* event loop schedules the task
TaskStep(t) ==
    \/ CacheGet(t)
    \/ LoadModelEnter(t)
    \/ LockAcquire(t)
    \/ \E ok \in BOOLEAN : LoadFinish(t, ok)
    \/ LoadReturn(t)
    \/ AnalyzeNoModel(t)
    \/ AnalyzeRaise(t)
    \/ \E out \in ClfOutputs : AnalyzeModel(t, out)
    \/ CacheSet(t)
    \/ Return(t)

\* the text of the calls in the specifications of the calls on their own
LiveInputs == { Str("Local bakery wins regional award for best sourdough") }

\* the calls on their own: no step of the application's lifespan, no expiry
NextLive ==
    \/ \E t \in Tasks : \E r \in LiveInputs : CallAnalyze(t, r)
    \/ \E t \in Tasks : CallLoadModel(t)
    \/ \E t \in Tasks : TaskStep(t)

\* the calls before the application has connected the cache, under a fair
\* event loop, every load attempt, inference and store operation coming to an
\* end
SpecLive == Init /\ [][NextLive]_vars /\ \A t \in Tasks : WF_vars(TaskStep(t))

\* the application is serving: the lifespan has run cache.connect(), which
\* left a client or, the ping having failed, none
InitServing ==
    /\ InitMemo(RawInputs, CanonTexts)
    /\ InitCalls
    /\ InitLimiter
    /\ app_pc = "serving"
    /\ \E w \in LegacyWorlds :
         store = w.store /\ classifier = w.classifier /\ written = w.written
    /\ redis_client \in {"None", "client"}
    /\ probe = NoProbe

\* the calls, with callers that may go away
NextCancel ==
    \/ NextLive
    \/ \E t \in Tasks : Cancel(t)

\* the calls of a serving application, with callers that may go away, under
\* a fair event loop, every load attempt, inference and store operation
\* coming to an end; no cancellation is bound to happen
SpecCancel ==
    InitServing /\ [][NextCancel]_vars /\ \A t \in Tasks : WF_vars(TaskStep(t))

\* the steps of a call that end by themselves: the code of the detector
\* between two awaits, and the store operations, which the client ends after
\* socket_timeout seconds.  The load of the model and the pipeline call are
\* not among them: nothing in load_model or analyze_text bounds their time.
BoundedStep(t) ==
    \/ CacheGet(t)
    \/ LoadModelEnter(t)
    \/ LockAcquire(t)
    \/ LoadReturn(t)
    \/ AnalyzeNoModel(t)
    \/ CacheSet(t)
    \/ Return(t)

\* the program under a fair event loop, with a classifier whose load or
\* inference may never come to an end
SpecBounded == Spec /\ \A t \in Tasks : WF_vars(BoundedStep(t))

(***************************************************************************)
(* The score fusion as a pure function: the arguments are drawn in the     *)
(* initial state, the action applies _calculate_credibility_score to them  *)
(***************************************************************************)
\* the probabilities the classifier can report, in units of 1/ProbScale
ProbGrid == 0..ProbScale

\* a text matches each of the keywords and patterns at most once
SignalCounts == 0..(Len(suspicious_keywords) + Len(suspicious_patterns))

InitFuse ==
    /\ InitProgram
    /\ store = << >>
    /\ probe \in { [fn |-> "pending", model_score |-> p, pattern_count |-> n]
                   : p \in ProbGrid, n \in SignalCounts }

\* final_score, label = self._calculate_credibility_score(model_score,
\*                          suspicious_detected, len(patterns))
ApplyScore ==
    /\ probe.fn = "pending"
    /\ probe' = [fn            |-> "calculate_credibility_score",
                 model_score   |-> probe.model_score,
                 pattern_count |-> probe.pattern_count,
                 value         |-> calculate_credibility_score(
                                       probe.model_score,
                                       probe.pattern_count > 0,
                                       probe.pattern_count)]
    /\ UNCHANGED << codeVars, histVars, limitVars >>

NextFuse == ApplyScore

SpecFuse == InitFuse /\ [][NextFuse]_vars

(***************************************************************************)
(* Properties                                                              *)
(***************************************************************************)
\* the call of task t is an analyze_text call on a non-empty canonical text
\* that has returned
Returned(t) == pc[t] = "done" /\ kind[t] = "analyze" /\ sanitized_text[t] # ""

ModelBacked(r) == r # Raised /\ "fallback_mode" \notin DOMAIN r /\ "error" \notin DOMAIN r

IsScoreResult(r) ==
    /\ r # Raised
    /\ "error" \notin DOMAIN r
    /\ {"score", "label", "reason", "model_confidence", "patterns_detected",
        "text_length"} \subseteq DOMAIN r
    /\ r.label \in {"reliable", "suspicious", "fake"}

ModelKey(t) == generate_key("model", sanitized_text[t])

\* C1: the tasks that call load_model while no load attempt has completed
\* cause one load attempt in total, and all find the same classifier state
\* (all Ready or all Failed) when load_model returns.
OneLoadAttemptPerWave ==
    /\ waveAttempts <= 1
    /\ Cardinality(waveObserved) <= 1

\* C2: once a load attempt has failed, no step performs another load attempt
\* and no step produces a model-backed result.
FailedIsSticky ==
    [][loadFailed =>
         /\ loadAttempts' = loadAttempts
         /\ \A t \in Tasks : compute'[t] = "model" => compute[t] = "model"]_vars

HitReturnsWritten ==
    \A t \in Tasks :
        (Returned(t) /\ lookup[t] = "hit") =>
            /\ ModelKey(t) \in DOMAIN written
            /\ result[t] = written[ModelKey(t)]
            /\ compute[t] = "none"

\* C5 witness: a hit served by a process that has loaded its classifier in
\* its one load attempt
HitWhileReady ==
    \E t \in Tasks :
        /\ Returned(t) /\ lookup[t] = "hit"
        /\ model_loaded
        /\ loadAttempts = 1

\* C6: a call that finds the store unavailable (no client, or the Redis call
\* raises) computes, returns what it computed and does not raise; a store
\* operation that finds the store unavailable leaves the store as it is.
StoreDownResult ==
    \A t \in Tasks :
        (Returned(t) /\ lookup[t] = "down" /\ setres[t] # "stored") =>
            /\ compute[t] # "none"
            /\ result[t] # Raised
            /\ result[t] = IF compute[t] = "model"
                           THEN ModelResult(sanitized_text[t],
                                            classifier[sanitized_text[t]])
                           ELSE fallback_analysis(sanitized_text[t])

StoreDownStep ==
    \A t \in Tasks :
        (\/ lookup'[t] = "down" /\ lookup[t] # "down"
         \/ setres'[t] = "down" /\ setres[t] # "down") => store' = store

StoreDownPassThrough == [] StoreDownResult /\ [][StoreDownStep]_vars

\* C6 witness: a model-backed result returned by a call whose get and set
\* both found the store unavailable
StoreDownModelResult ==
    \E t \in Tasks :
        /\ Returned(t) /\ lookup[t] = "down" /\ setres[t] = "down"
        /\ compute[t] = "model"
        /\ redis_client = "client"

\* C7: a call that finds the classifier not loaded after load_model, or whose
\* inference raises, returns a fallback result (fallback_mode true,
\* model_confidence None), not an error record and not an exception.
ClassifierDownFallsBack ==
    \A t \in Tasks :
        (Returned(t) /\ compute[t] \in {"no_model", "raised"}) =>
            /\ result[t] # Raised
            /\ IsScoreResult(result[t])
            /\ "fallback_mode" \in DOMAIN result[t]
            /\ result[t].fallback_mode = TRUE
            /\ result[t].model_confidence = None

\* C7 witness: the inference raised on a loaded classifier and the call returned
InferenceRaisedReturned ==
    \E t \in Tasks :
        /\ Returned(t) /\ compute[t] = "raised"
        /\ lookup[t] = "miss"

\* inputs that are not text, are empty or hold white space only
BlankInputs == { NonText, Str(""), Str(" \t\n ") }

ScoreInRange ==
    /\ \A t \in Tasks :
           Returned(t) => /\ "score" \in DOMAIN result[t]
                          /\ result[t].score \in 0..100
    /\ \A k \in DOMAIN written : written[k].score \in 0..100

\* C9 witness: the classifier reported probability 1 for a text with signals
\* (a sum of 130 before the clamp) and the call returned
ClampedResultReturned ==
    \E t \in Tasks :
        /\ Returned(t) /\ compute[t] = "model"
        /\ classifier[sanitized_text[t]] = [label |-> "LABEL_1", score |-> ProbScale]
        /\ result[t].patterns_detected >= 3
        /\ result[t].score = 100

\* C10: the label _calculate_credibility_score returns follows from the final
\* score alone: below 30 reliable, from 30 to 69 suspicious, from 70 fake.
LabelFollowsScore ==
    probe.fn = "calculate_credibility_score" =>
        LET final_score == probe.value[1]
            label       == probe.value[2]
        IN  /\ final_score < 30 => label = "reliable"
            /\ (30 <= final_score /\ final_score < 70) => label = "suspicious"
            /\ final_score >= 70 => label = "fake"

\* C10 witness: a final score of exactly 70, reached with a signal bonus
BoundaryScoreLabelled ==
    /\ probe.fn = "calculate_credibility_score"
    /\ probe.pattern_count = 2
    /\ probe.value = << 70, "fake" >>

\* the signal bonus and the clamp, as the specification of the fusion states them
Bonus(n) == IF n > 0 THEN (IF 10 * n < 30 THEN 10 * n ELSE 30) ELSE 0

Clamp(x) == IF x < 0 THEN 0 ELSE IF x > 100 THEN 100 ELSE x

\* C11 as stated: the score is clamp(round(p * 100) + bonus(n), 0, 100), with
\* p * 100 rounded to the nearest integer.
ScoreRoundsPercent ==
    probe.fn = "calculate_credibility_score" =>
        \E b \in 0..100 :
            /\ 2 * b * ProbScale - ProbScale <= 200 * probe.model_score
            /\ 200 * probe.model_score <= 2 * b * ProbScale + ProbScale
            /\ probe.value[1] = Clamp(b + Bonus(probe.pattern_count))

\* C11 amended: the score is clamp(int(p * 100) + bonus(n), 0, 100), with
\* p * 100 truncated to the integer below it.
ScoreTruncatesPercent ==
    probe.fn = "calculate_credibility_score" =>
        \E b \in 0..100 :
            /\ b * ProbScale <= 100 * probe.model_score
            /\ 100 * probe.model_score < (b + 1) * ProbScale
            /\ probe.value[1] = Clamp(b + Bonus(probe.pattern_count))

\* C11 witness: p = 0.296 without signals scores 29, not 30
TruncatedScore ==
    /\ probe.fn = "calculate_credibility_score"
    /\ 1000 * probe.model_score = 296 * ProbScale
    /\ probe.pattern_count = 0
    /\ probe.value[1] = 29

(***************************************************************************)
(* The result dicts as pure functions of the canonical text and of the     *)
(* classifier's answer: the arguments are drawn in the initial state, one  *)
(* action builds the model-backed dict and one the fallback dict           *)
(***************************************************************************)
\* phrases the texts are made of: none, one or two signals each
Phrases ==
    << "hoax", "big pharma", "wake up", "sheeple", "flat earth", "do your research" >>

RECURSIVE PhraseText(_, _)
PhraseText(chosen, i) ==
    IF i > Len(Phrases) THEN ""
    ELSE IF i \in chosen THEN " " \o Phrases[i] \o PhraseText(chosen, i + 1)
    ELSE PhraseText(chosen, i + 1)

\* canonical texts: a neutral word followed by any choice of the phrases
ResultTexts == { "report" \o PhraseText(chosen, 1) : chosen \in SUBSET (1..Len(Phrases)) }

\* the scores the classifier reports: the hundredths and their neighbours
ResultScores == { k \in 0..ProbScale : k % 100 \in {0, 1, 99} }

ResultOutputs == [label : {"LABEL_0", "LABEL_1"}, score : ResultScores]

InitResult ==
    /\ InitMemo(RawInputs, CanonTexts \cup ResultTexts)
    /\ InitState
    /\ store = << >>
    /\ probe \in { [fn |-> "pending", regime |-> "model", text |-> x, out |-> o]
                   : x \in ResultTexts, o \in ResultOutputs }
                 \cup
                 { [fn |-> "pending", regime |-> "fallback", text |-> x,
                    out |-> [label |-> "none", score |-> 0]]
                   : x \in ResultTexts }

\* the try block of analyze_text with a loaded classifier that answers out
ApplyModelResult ==
    /\ probe.fn = "pending"
    /\ probe.regime = "model"
    /\ probe' = [fn     |-> "ModelResult",
                 regime |-> "model",
                 text   |-> probe.text,
                 out    |-> probe.out,
                 value  |-> ModelResult(probe.text, probe.out)]
    /\ UNCHANGED << codeVars, histVars, limitVars >>

\* return await self._fallback_analysis(sanitized_text)
ApplyFallback ==
    /\ probe.fn = "pending"
    /\ probe.regime = "fallback"
    /\ probe' = [fn     |-> "fallback_analysis",
                 regime |-> "fallback",
                 text   |-> probe.text,
                 out    |-> probe.out,
                 value  |-> fallback_analysis(probe.text)]
    /\ UNCHANGED << codeVars, histVars, limitVars >>

\* return TextAnalysisResponse(**result) in the endpoint
ApplyResponse ==
    /\ probe.fn \in {"ModelResult", "fallback_analysis"}
    /\ probe' = [fn       |-> "TextAnalysisResponse",
                 regime   |-> probe.regime,
                 text     |-> probe.text,
                 out      |-> probe.out,
                 value    |-> probe.value,
                 response |-> TextAnalysisResponse(probe.value)]
    /\ UNCHANGED << codeVars, histVars, limitVars >>

NextResult == ApplyModelResult \/ ApplyFallback \/ ApplyResponse

SpecResult == InitResult /\ [][NextResult]_vars

\* the probability of fake the classifier's answer stands for
ProbeProbability ==
    IF probe.out.label = "LABEL_0" THEN ProbScale - probe.out.score ELSE probe.out.score

\* the identifiers of the signals of the text, in detection order
ProbeSignals == detected[probe.text]

\* at most the first three of the identifiers, joined by commas
FirstThreeJoined(ids) ==
    IF Len(ids) = 1 THEN ids[1]
    ELSE IF Len(ids) = 2 THEN ids[1] \o "," \o ids[2]
    ELSE ids[1] \o "," \o ids[2] \o "," \o ids[3]

\* C12: on the model-backed path the reason is pattern_detection with at most
\* the first 3 signal identifiers when a signal was detected, whatever the
\* probability; otherwise high_model_confidence when p > 0.8, otherwise
\* moderate_model_confidence when p > 0.6, otherwise low_risk_patterns.
ReasonByPriority ==
    probe.fn = "ModelResult" =>
        probe.value.reason =
            IF Len(ProbeSignals) > 0
            THEN "pattern_detection:" \o FirstThreeJoined(ProbeSignals)
            ELSE IF 10 * ProbeProbability > 8 * ProbScale THEN "high_model_confidence"
            ELSE IF 10 * ProbeProbability > 6 * ProbScale THEN "moderate_model_confidence"
            ELSE "low_risk_patterns"

\* C12 witness: p = 0.8 exactly without signals is moderate
ReasonAtThreshold ==
    /\ probe.fn = "ModelResult"
    /\ Len(ProbeSignals) = 0
    /\ 10 * ProbeProbability = 8 * ProbScale
    /\ probe.value.reason = "moderate_model_confidence"

\* C13: the score of a fallback result is 20 when no signal is detected and
\* from 60 to 90 when at least one is, for any number of signals.
FallbackScoreRange ==
    probe.fn = "fallback_analysis" =>
        /\ Len(ProbeSignals) = 0 => probe.value.score = 20
        /\ Len(ProbeSignals) >= 1 => probe.value.score \in 60..90

\* C13 witness: a text with more than three signals scores 90
FallbackScoreCapped ==
    /\ probe.fn = "fallback_analysis"
    /\ Len(ProbeSignals) > 3
    /\ probe.value.score = 90

\* C14: with n >= 1 signals the fallback result has score min(60 + 10 n, 90),
\* label fake from 80 and suspicious below, and reason
\* fallback_pattern_detection with at most the first 3 identifiers; with no
\* signal it has score 20, label reliable and reason fallback_low_risk.
FallbackRule ==
    probe.fn = "fallback_analysis" =>
        LET n == Len(ProbeSignals)
            r == probe.value
        IN  /\ n >= 1 =>
                 /\ r.score = (IF 60 + 10 * n < 90 THEN 60 + 10 * n ELSE 90)
                 /\ r.label = (IF r.score >= 80 THEN "fake" ELSE "suspicious")
                 /\ r.reason = "fallback_pattern_detection:" \o FirstThreeJoined(ProbeSignals)
            /\ n = 0 =>
                 /\ r.score = 20
                 /\ r.label = "reliable"
                 /\ r.reason = "fallback_low_risk"

\* C14 witness: exactly 2 signals give score 80 and label fake
FallbackTwoSignals ==
    /\ probe.fn = "fallback_analysis"
    /\ Len(ProbeSignals) = 2
    /\ probe.value.score = 80
    /\ probe.value.label = "fake"

(***************************************************************************)
(* Two results side by side: two argument lists are drawn in the initial   *)
(* state and the action builds the result dict of each                     *)
(***************************************************************************)
PairTexts ==
    { "report", "report hoax", "report hoax big pharma", "report wake up sheeple" }

PairOutputs ==
    { [label |-> "LABEL_1", score |-> k * (ProbScale \div 10)] : k \in 0..10 }
    \cup { [label |-> "LABEL_0", score |-> 3 * (ProbScale \div 10)] }

PairInputs ==
    { [regime |-> "model", text |-> x, out |-> o] : x \in PairTexts, o \in PairOutputs }
    \cup
    { [regime |-> "fallback", text |-> x, out |-> [label |-> "none", score |-> 0]]
      : x \in PairTexts }

InitPair ==
    /\ InitMemo(RawInputs, CanonTexts \cup ResultTexts)
    /\ InitState
    /\ store = << >>
    /\ probe \in [fn : {"pending"}, a : PairInputs, b : PairInputs]

\* the dict analyze_text computes for the arguments
ComputedResult(in) ==
    IF in.regime = "model" THEN ModelResult(in.text, in.out)
    ELSE fallback_analysis(in.text)

ApplyPair ==
    /\ probe.fn = "pending"
    /\ probe' = [fn |-> "pair",
                 a  |-> [regime |-> probe.a.regime, text |-> probe.a.text,
                         out |-> probe.a.out, value |-> ComputedResult(probe.a)],
                 b  |-> [regime |-> probe.b.regime, text |-> probe.b.text,
                         out |-> probe.b.out, value |-> ComputedResult(probe.b)]]
    /\ UNCHANGED << codeVars, histVars, limitVars >>

NextPair == ApplyPair

SpecPair == InitPair /\ [][NextPair]_vars

\* C15 as stated: two results of analyze_text, from either regime, with equal
\* score carry the same label.
LabelFunctionOfScore ==
    probe.fn = "pair" =>
        (probe.a.value.score = probe.b.value.score
            => probe.a.value.label = probe.b.value.label)

\* C15 amended: two results with equal score carry the same label, unless one
\* is a fallback result and the other a model-backed result of score 70.
LabelFunctionOfScoreInRegime ==
    probe.fn = "pair" =>
        (probe.a.value.score = probe.b.value.score =>
            \/ probe.a.value.label = probe.b.value.label
            \/ /\ probe.a.regime # probe.b.regime
               /\ probe.a.value.score = 70
               /\ \A x \in {probe.a, probe.b} :
                      x.value.label = IF x.regime = "model" THEN "fake" ELSE "suspicious")

\* C15 witness: two model-backed results of different texts and probabilities
\* with the same score
EqualScoresInRegime ==
    /\ probe.fn = "pair"
    /\ probe.a.regime = "model" /\ probe.b.regime = "model"
    /\ probe.a.text # probe.b.text
    /\ probe.a.out # probe.b.out
    /\ probe.a.value.score = 70
    /\ probe.b.value.score = 70

(***************************************************************************)
(* The sanitizer as a pure function: the raw input is drawn in the initial *)
(* state, one action sanitizes it and one sanitizes the outcome again      *)
(***************************************************************************)
\* pieces of tags, of the two schemes and of plain text
Fragments ==
    { "java", "script:", "javascript:", "JavaScript:", "data:", "da", "ta:",
      "<b>", "<", ">", " ", "x" }

\* number of pieces a raw input is made of, at most
MaxFragments == 3

RECURSIVE Concat(_)
Concat(pieces) ==
    IF pieces = << >> THEN "" ELSE Head(pieces) \o Concat(Tail(pieces))

SanitizerInputs ==
    { NonText } \cup
    { Str(Concat(pieces)) : pieces \in UNION { [1..n -> Fragments] : n \in 0..MaxFragments } }

InitSanitize ==
    /\ InitProgram
    /\ store = << >>
    /\ probe \in { [fn |-> "pending", raw |-> r] : r \in SanitizerInputs }

\* sanitized_text = self._sanitize_text(text)
ApplySanitize ==
    /\ probe.fn = "pending"
    /\ probe' = [fn |-> "sanitize_text", raw |-> probe.raw,
                 value |-> sanitize_text(probe.raw)]
    /\ UNCHANGED << codeVars, histVars, limitVars >>

\* the canonical text is passed to _sanitize_text again
SanitizeAgain ==
    /\ probe.fn = "sanitize_text"
    /\ probe' = [fn |-> "sanitize_twice", raw |-> probe.raw,
                 value |-> probe.value,
                 again |-> sanitize_text(Str(probe.value))]
    /\ UNCHANGED << codeVars, histVars, limitVars >>

NextSanitize == ApplySanitize \/ SanitizeAgain

SpecSanitize == InitSanitize /\ [][NextSanitize]_vars

\* C16: sanitizing a canonical text again returns it unchanged.
SanitizeIdempotent ==
    probe.fn = "sanitize_twice" => probe.again = probe.value

\* the text holds a '<' with a '>' somewhere after it
HasTag(s) ==
    \E i \in 1..Len(s) : \E j \in (i + 1)..Len(s) : Char(s, i) = "<" /\ Char(s, j) = ">"

\* C17: the canonical text holds no tag and no occurrence, in any case, of
\* 'javascript:' or 'data:'.
SanitizedIsClean ==
    probe.fn = "sanitize_text" =>
        /\ ~HasTag(probe.value)
        /\ ~Contains(lower(probe.value), "javascript:")
        /\ ~Contains(lower(probe.value), "data:")

\* the regime a computation ran in
Regime(c) == IF c = "model" THEN "model" ELSE "fallback"

StoreKeys ==
    { generate_key("model", "a"), generate_key("model", "b"), generate_key("api", "c") }

\* a prediction to store
StoreValue ==
    ModelResult("Local bakery wins regional award for best sourdough",
                [label |-> "LABEL_0", score |-> ProbScale - 4])

\* the stores over these keys: each key is absent, held without TTL or held
\* with the TTL of a prediction
StoreWorlds ==
    UNION { [held -> { [value |-> json_dumps(StoreValue), ttl |-> NoTtl],
                       [value |-> json_dumps(StoreValue),
                        ttl   |-> TtlSeconds(CACHE_TTL_HOURS)] }]
            : held \in SUBSET StoreKeys }

InitStore ==
    /\ InitMemo(RawInputs, CanonTexts)
    /\ InitTasks
    /\ InitLimiter
    /\ classifier = << >>
    /\ written = << >>
    /\ store \in StoreWorlds
    /\ redis_client \in {"None", "client"}
    /\ probe = NoProbe

\* what every operation leaves alone
StoreFrame ==
    UNCHANGED << sanitized, detected, model_loaded, loading_lock, classifier,
                 redis_client, app_pc, pc, kind, raw, sanitized_text, result, calls,
                 histVars, limitVars >>

\* await cache.get(key)
StoreGet(key, fails) ==
    /\ probe = NoProbe
    /\ LET r == cache_get(key, fails)
       IN  /\ probe' = [fn |-> "get", raised |-> r.raised, returned |-> r.value,
                        failed |-> fails, before |-> store]
           /\ UNCHANGED store
    /\ StoreFrame

\* await cache.set(key, value, ttl_hours)
StoreSet(key, fails) ==
    /\ probe = NoProbe
    /\ LET r == cache_set(key, StoreValue, CACHE_TTL_HOURS, fails)
       IN  /\ probe' = [fn |-> "set", raised |-> r.raised, returned |-> r.ok,
                        failed |-> fails, before |-> store]
           /\ store' = r.store
    /\ StoreFrame

\* await cache.delete(key)
StoreDelete(key, fails) ==
    /\ probe = NoProbe
    /\ LET r == cache_delete(key, fails)
       IN  /\ probe' = [fn |-> "delete", raised |-> r.raised, returned |-> r.ok,
                        failed |-> fails, before |-> store]
           /\ store' = r.store
    /\ StoreFrame

\* await cache.clear_expired()
StoreSweep(fails) ==
    /\ probe = NoProbe
    /\ LET r == clear_expired(fails)
       IN  /\ probe' = [fn |-> "clear_expired", raised |-> r.raised,
                        returned |-> r.deleted, failed |-> fails, before |-> store]
           /\ store' = r.store
    /\ StoreFrame

NextStore ==
    \/ \E key \in StoreKeys : \E fails \in BOOLEAN : StoreGet(key, fails)
    \/ \E key \in StoreKeys : \E fails \in BOOLEAN : StoreSet(key, fails)
    \/ \E key \in StoreKeys : \E fails \in BOOLEAN : StoreDelete(key, fails)
    \/ \E fails \in BOOLEAN : StoreSweep(fails)

SpecStore == InitStore /\ [][NextStore]_vars

\* the keys of the namespace the sweep scans
InModelNamespace(k) == Len(k) >= 6 /\ SubSeq(k, 1, 6) = "model:"

DisconnectedOperationsAreSafe ==
    (probe # NoProbe /\ redis_client = "None") =>
        /\ ~probe.raised
        /\ store = probe.before
        /\ probe.fn = "get" => probe.returned = None
        /\ probe.fn = "set" => probe.returned = FALSE
        /\ probe.fn = "delete" => probe.returned = FALSE
        /\ probe.fn = "clear_expired" => probe.returned = 0

\* C20 witness: a delete without a client of a key the store holds
DisconnectedDelete ==
    /\ probe # NoProbe
    /\ probe.fn = "delete"
    /\ redis_client = "None"
    /\ DOMAIN store = StoreKeys
    /\ probe.returned = FALSE

(***************************************************************************)
(* The classifier state machine                                            *)
(***************************************************************************)
\* the classifier state the detector's fields stand for: the flag, the lock
\* held during a load attempt, and whether an attempt has failed
ClassifierState ==
    IF model_loaded THEN "Ready"
    ELSE IF loading_lock # NoTask THEN "Loading"
    ELSE IF loadFailed THEN "Failed"
    ELSE "NotLoaded"

\* no step leaves Ready
ReadyStaysReady == [][ClassifierState = "Ready" => ClassifierState' = "Ready"]_vars

\* C21: the classifier state only moves forward: no step leaves Ready, and no
\* step takes a Failed classifier back to NotLoaded or to Loading.
StateMovesForward ==
    [][/\ ClassifierState = "Ready" => ClassifierState' = "Ready"
       /\ ClassifierState = "Failed" => ClassifierState' \notin {"NotLoaded", "Loading"}]_vars

(***************************************************************************)
(* The signal detector as a pure function: the text is drawn in the        *)
(* initial state, the action applies _detect_suspicious_patterns to it     *)
(***************************************************************************)
\* phrases the texts are made of; a phrase may occur more than once in a
\* text, and in upper case
DetectPhrases ==
    << "hoax", "Wake Up", "sheeple", "fake news", "big pharma",
       "they don't want you", "flat earth" >>

MaxPhrases == 2

RECURSIVE PhraseSeqText(_)
PhraseSeqText(ps) ==
    IF ps = << >> THEN ""
    ELSE " " \o DetectPhrases[Head(ps)] \o PhraseSeqText(Tail(ps))

\* canonical texts: a neutral word followed by up to MaxPhrases phrases
DetectTexts ==
    { "report" \o PhraseSeqText(ps)
      : ps \in UNION { [1..n -> 1..Len(DetectPhrases)] : n \in 0..MaxPhrases } }

InitDetect ==
    /\ InitMemo(RawInputs, CanonTexts \cup DetectTexts)
    /\ InitState
    /\ store = << >>
    /\ probe \in { [fn |-> "pending", text |-> x] : x \in DetectTexts }

\* suspicious_detected, patterns = self._detect_suspicious_patterns(sanitized_text)
ApplyDetect ==
    /\ probe.fn = "pending"
    /\ probe' = [fn    |-> "detect_suspicious_patterns",
                 text  |-> probe.text,
                 value |-> Detect(probe.text)]
    /\ UNCHANGED << codeVars, histVars, limitVars >>

NextDetect == ApplyDetect

SpecDetect == InitDetect /\ [][NextDetect]_vars

\* the entry of each rule, in the order of the rule lists: the keywords,
\* then the patterns
RuleTags ==
    [i \in 1..Len(suspicious_keywords) |-> "keyword_match:" \o suspicious_keywords[i]]
        \o [i \in 1..Len(suspicious_patterns) |->
               "pattern_match:" \o suspicious_patterns[i].regex]

\* rule number i matches the text
RuleMatches(i, text) ==
    IF i <= Len(suspicious_keywords)
    THEN Contains(lower(text), suspicious_keywords[i])
    ELSE PatternMatches(suspicious_patterns[i - Len(suspicious_keywords)], lower(text))

\* the number of places at which the lower-cased text holds the word
Occurrences(text, word) ==
    Cardinality({ i \in 1..Len(text) : OccursAt(lower(text), i, word) })

\* C22: the detector's list holds exactly one entry for each rule that matches
\* the text, however often the rule matches; the entry is the rule's kind and
\* literal; the entries stand in the order of the rules (keywords, then
\* patterns, each in list order), so there are at most as many as rules.
OneEntryPerMatchingRule ==
    probe.fn = "detect_suspicious_patterns" =>
        LET d == probe.value
        IN  /\ Len(d) <= Len(RuleTags)
            /\ \A i \in 1..Len(RuleTags) :
                   Cardinality({ j \in 1..Len(d) : d[j] = RuleTags[i] })
                       = IF RuleMatches(i, probe.text) THEN 1 ELSE 0
            /\ \A j \in 1..Len(d) : \E i \in 1..Len(RuleTags) : d[j] = RuleTags[i]
            /\ \A j, k \in 1..Len(d) :
                   j < k => \E a, b \in 1..Len(RuleTags) :
                                a < b /\ d[j] = RuleTags[a] /\ d[k] = RuleTags[b]

\* a text that holds a keyword twice, and a keyword and a pattern of the same
\* words, has been given its list
RepeatedKeywordDetected ==
    /\ probe.fn = "detect_suspicious_patterns"
    /\ Occurrences(probe.text, "fake news") = 2
    /\ probe.value = << "keyword_match:fake news",
                        "pattern_match:" \o suspicious_patterns[2].regex >>

\* the result dict of the probe was built on the model-backed path
ProbeModelBacked == probe.fn # "pending" /\ probe.regime = "model"

\* the result dict of the probe was built on the fallback path
ProbeFallback == probe.fn # "pending" /\ probe.regime = "fallback"

\* c, in units of 1/ProbScale, is p rounded to 3 decimals: a multiple of
\* 0.001 at most 0.0005 away from p
IsRounded3(c, p) ==
    /\ c % (ProbScale \div 1000) = 0
    /\ 2 * (IF c > p THEN c - p ELSE p - c) <= ProbScale \div 1000

MaxRequests == 12

\* responses the client received in the current window
Sent ==
    responses[<<"health", 200>>] + responses[<<"health", 401>>]
        + responses[<<"health", 429>>] + responses[<<"analyze", 200>>]
        + responses[<<"analyze", 401>>] + responses[<<"analyze", 429>>]

LimitFrame == UNCHANGED << codeVars, histVars, probe >>

\* GET /health: the route has no @limiter.limit and no dependency; both
\* branches of health_check return a HealthResponse
GetHealth ==
    /\ Sent < MaxRequests
    /\ responses' = [responses EXCEPT ![<<"health", 200>>] = @ + 1]
    /\ UNCHANGED hits
    /\ LimitFrame

\* POST /analyze with a valid body: verify_api_key, then the limiter's
\* test of "10/minute", then the endpoint, whose answer is taken as 200
PostAnalyze(key_ok) ==
    /\ Sent < MaxRequests
    /\ IF ~key_ok
       THEN /\ responses' = [responses EXCEPT ![<<"analyze", 401>>] = @ + 1]
            /\ UNCHANGED hits
       ELSE /\ hits' = [hits EXCEPT !["analyze"] = @ + 1]
            /\ responses' =
                 IF hits'["analyze"] <= RATE_LIMIT_PER_MINUTE
                 THEN [responses EXCEPT ![<<"analyze", 200>>] = @ + 1]
                 ELSE [responses EXCEPT ![<<"analyze", 429>>] = @ + 1]
    /\ LimitFrame

\* the minute of the limiter's window ends
MinutePasses ==
    /\ Sent > 0
    /\ hits' = [r \in LimitedRoutes |-> 0]
    /\ responses' = [x \in Routes \X Statuses |-> 0]
    /\ LimitFrame

NextLimit ==
    \/ GetHealth
    \/ \E key_ok \in BOOLEAN : PostAnalyze(key_ok)
    \/ MinutePasses

SpecLimit == Init /\ [][NextLimit]_vars

\* within one window at most RATE_LIMIT_PER_MINUTE requests to /analyze are
\* answered with 200
AnalyzeRequestsLimited == responses[<<"analyze", 200>>] <= RATE_LIMIT_PER_MINUTE

\* C24: of the 12 requests one client sends to GET /health in quick
\* succession, at most 10 (RATE_LIMIT_PER_MINUTE) are answered with 200.
HealthRequestsLimited == responses[<<"health", 200>>] <= RATE_LIMIT_PER_MINUTE

\* the tasks inside the load section of load_model: past the second test of
\* the flag, before the flag is set
InLoadSection == { t \in Tasks : pc[t] = "loading" }

\* C25: at most one task is inside the load section, and it is the task that
\* holds the loading lock, however many tasks call load_model or analyze_text.
LoadingIsExclusive ==
    /\ Cardinality(InLoadSection) <= 1
    /\ \A t \in InLoadSection : loading_lock = t

\* C25 witness: one task is inside the load section while another task, which
\* found the classifier not loaded, waits for the lock
LoadContended ==
    \E t, u \in Tasks :
        /\ t # u
        /\ pc[t] = "loading"
        /\ pc[u] = "lock_wait"
        /\ kind[t] = "analyze"

\* C26: a task that waits for the lock while another task's load is in flight
\* returns from load_model in the end, every load attempt terminating; and a
\* task that gets the lock when the classifier is Ready leaves load_model
\* without a load of its own.
WaiterReturnsWithoutLoad ==
    /\ \A t \in Tasks :
         (pc[t] = "lock_wait" /\ loading_lock # NoTask) ~> (pc[t] = "loaded")
    /\ [][\A t \in Tasks :
            (pc[t] = "lock_wait" /\ model_loaded) =>
                /\ pc'[t] \in {"lock_wait", "loaded"}
                /\ loadAttempts' = loadAttempts]_vars

\* C26 witness: two tasks found the classifier not loaded before any load
\* attempt had completed; one made the only attempt, which succeeded, and has
\* gone on to the cache set; the other, which waited for the lock meanwhile,
\* is back from load_model without a load of its own
WaiterFoundReady ==
    \E t, u \in Tasks :
        /\ t # u
        /\ inWave[t] /\ inWave[u]
        /\ pc[t] = "loaded" /\ pc[u] = "cache_set"
        /\ model_loaded
        /\ loadAttempts = 1

\* C27: a task that enters load_model when the classifier is Ready leaves it
\* at once, without waiting for or taking the lock and without a load attempt;
\* and while the classifier is Ready, so during every inference, no task
\* holds the lock.
ReadyBypassesLock ==
    /\ [][\A t \in Tasks :
            (pc[t] = "load_model" /\ model_loaded) =>
                /\ pc'[t] \in {"load_model", "loaded"}
                /\ loading_lock' = loading_lock
                /\ loadAttempts' = loadAttempts]_vars
    /\ [](model_loaded => loading_lock = NoTask)

\* C27 witness: the one load attempt succeeded; a task that entered
\* load_model after it is at the inference without having waited for the
\* lock, while another task's analysis is at its cache set
ReadyAnalysesOverlap ==
    \E t, u \in Tasks :
        /\ t # u
        /\ model_loaded
        /\ loadAttempts = 1
        /\ kind[t] = "analyze" /\ pc[t] = "loaded" /\ ~inWave[t]
        /\ pc[u] = "cache_set"

\* task t's call missed the cache, has its result, and found the classifier
\* not loaded before any load attempt had completed
MissedInFirstWave(t) ==
    Returned(t) /\ lookup[t] = "miss" /\ compute[t] # "none" /\ inWave[t]

\* the call that returned last ran on the text of t's call, missed the cache
\* and computed its result.  With MissedInFirstWave(t) the two calls were in
\* progress at the same time: that call came back from load_model, so after
\* a load attempt had completed, and t entered load_model before.
LastCallOverlapped(t) ==
    /\ lastCall # NoCall
    /\ lastCall.text = sanitized_text[t]
    /\ lastCall.compute # "none"

\* task u's call, on the text of t's call, missed the cache as well, has
\* computed its result and waits for its cache set
PendingOverlapped(t, u) ==
    /\ u # t
    /\ pc[u] = "cache_set"
    /\ sanitized_text[u] = sanitized_text[t]
    /\ lookup[u] = "miss"
    /\ inWave[u]

\* the entry stored for a text is the result one call computes for it with
\* the loaded classifier
StoredIsSequentialResult ==
    \A k \in DOMAIN store :
        \E x \in DOMAIN classifier :
            /\ k = generate_key("model", x)
            /\ store[k].value = json_dumps(ModelResult(x, classifier[x]))

\* C28: concurrent analyze_text calls on the same canonical text that all miss
\* the cache return the same result, and the entry stored for the text is the
\* result of one sequential call.
ConcurrentMissesAgree ==
    /\ \A t \in Tasks :
         MissedInFirstWave(t) =>
             /\ LastCallOverlapped(t) => result[t] = lastCall.result
             /\ \A u \in Tasks : PendingOverlapped(t, u) => result[t] = result[u]
    /\ StoredIsSequentialResult

\* C29: every analyze_text call that has started returns in the end, also
\* when a load of the model, an inference or a store operation never
\* completes by itself.
EveryCallReturns ==
    \A t \in Tasks :
        (kind[t] = "analyze" /\ pc[t] \notin {"idle", "done"}) ~> (pc[t] = "done")

\* the step cancels the call of task t
CancelStep(t) == result[t] # Cancelled /\ result'[t] = Cancelled

PolarityLabels == {"LABEL_0", "LABEL_1", "REAL", "label_0"}

\* confidences on both sides of the thresholds of the score, of the label and
\* of the reason
PolarityScores == {0, 500, 1999, 3000, 3999, 5000, 6100, 7000, 8100, 9000, 9996, ProbScale}

\* canonical texts with no, one and four signals
PolarityTexts ==
    { "report",
      "report hoax",
      "report" \o PhraseText({1, 2, 5}, 1) \o " do your research" }

InitPolarity ==
    /\ InitMemo(RawInputs, CanonTexts \cup PolarityTexts)
    /\ InitState
    /\ store = << >>
    /\ probe \in { [fn |-> "pending", regime |-> "model", text |-> x,
                    out |-> [label |-> l, score |-> c]]
                   : x \in PolarityTexts, l \in PolarityLabels, c \in PolarityScores }
                 \cup
                 { [fn |-> "pending", regime |-> "fallback", text |-> x,
                    out |-> [label |-> "none", score |-> 0]]
                   : x \in PolarityTexts }

SpecPolarity == InitPolarity /\ [][NextResult]_vars

\* C31: when the classifier emits LABEL_0 with confidence c, the probability
\* used for the score, for the reason and for model_confidence is 1 - c; for
\* any other label it is c.
LabelPolarityNormalized ==
    probe.fn = "ModelResult" =>
        LET c == probe.out.score
            p == IF probe.out.label = "LABEL_0" THEN ProbScale - c ELSE c
            n == Len(ProbeSignals)
            r == probe.value
        IN  /\ \E b \in 0..100 :
                 /\ b * ProbScale <= 100 * p
                 /\ 100 * p < (b + 1) * ProbScale
                 /\ r.score = Clamp(b + Bonus(n))
            /\ n = 0 =>
                 r.reason = IF 10 * p > 8 * ProbScale THEN "high_model_confidence"
                            ELSE IF 10 * p > 6 * ProbScale
                            THEN "moderate_model_confidence"
                            ELSE "low_risk_patterns"
            /\ r.model_confidence # None
            /\ IsRounded3(r.model_confidence[1], p)

\* C31 witness: LABEL_0 with confidence 0.9 on a text without signals gives
\* score 10, reason low_risk_patterns and model_confidence 0.1
RealLabelInverted ==
    /\ probe.fn = "ModelResult"
    /\ probe.out = [label |-> "LABEL_0", score |-> 9000]
    /\ Len(ProbeSignals) = 0
    /\ probe.value.score = 10
    /\ probe.value.reason = "low_risk_patterns"
    /\ probe.value.model_confidence = Some(1000)

(***************************************************************************)
(* The sanitizer's slice: raw inputs longer than the limit, sanitized with *)
(* a short limit in place of the 10,000 of text[:10000], and with the      *)
(* limit of the code                                                       *)
(***************************************************************************)
\* the limit of the slice in ApplyTruncate
TruncLen == 4

\* words, white space, a tag and a scheme
TruncateFragments == { "xy ", " x", "x", "y", " ", "\t", "<b>", "data:" }

TruncateInputs ==
    { NonText } \cup
    { Str(Concat(pieces)) :
        pieces \in UNION { [1..n -> TruncateFragments] : n \in 0..MaxFragments } }

InitTruncate ==
    /\ InitProgram
    /\ store = << >>
    /\ probe \in { [fn |-> "pending", raw |-> r] : r \in TruncateInputs }

\* _sanitize_text with text[:TruncLen] as its slice
ApplyTruncate ==
    /\ probe.fn = "pending"
    /\ probe' = [fn |-> "sanitize_text_within", raw |-> probe.raw,
                 value |-> sanitize_text_within(probe.raw, TruncLen)]
    /\ UNCHANGED << codeVars, histVars, limitVars >>

NextTruncate == ApplyTruncate \/ ApplySanitize

SpecTruncate == InitTruncate /\ [][NextTruncate]_vars

\* the words of a text: its maximal runs of characters that are not white space
RECURSIVE Words(_)
Words(s) ==
    LET t == DropSpaces(s)
    IN  IF t = "" THEN << >>
        ELSE LET k == CHOOSE k \in 1..Len(t) :
                          /\ \A i \in 1..k : ~IsSpace(Char(t, i))
                          /\ k = Len(t) \/ IsSpace(Char(t, k + 1))
             IN  << Take(t, k) >> \o Words(Drop(t, k))

\* the raw text of the probe after the removal of tags and of the two schemes
ProbeCleaned ==
    StripLiteralCI("data:", StripLiteralCI("javascript:", StripTags(probe.raw.s)))

\* the limit the probe was sanitized with
ProbeLimit == IF probe.fn = "sanitize_text" THEN MaxTextLen ELSE TruncLen

\* C32: the canonical text is no longer than the limit, neither starts nor
\* ends with white space and has no two white-space characters in a row; its
\* words are those of the first limit characters of the text left by the
\* removal of tags and schemes, so the cut comes after that removal and before
\* white space is collapsed.
CanonicalTextIsCutThenCollapsed ==
    probe.fn \in {"sanitize_text", "sanitize_text_within"} =>
        LET v == probe.value
        IN  /\ Len(v) <= ProbeLimit
            /\ v # "" => ~IsSpace(Char(v, 1)) /\ ~IsSpace(Char(v, Len(v)))
            /\ \A i \in 1..(Len(v) - 1) :
                   ~(IsSpace(Char(v, i)) /\ IsSpace(Char(v, i + 1)))
            /\ Words(v) = Words(Take(ProbeCleaned, ProbeLimit))

\* C32 witness: a tag was removed, the text left is longer than the limit and
\* the cut falls inside a run of white space before a word: the canonical
\* text is shorter than the limit and the word is gone
CutInsideWhitespace ==
    /\ probe.fn = "sanitize_text_within"
    /\ Contains(probe.raw.s, "<b>")
    /\ Len(ProbeCleaned) > TruncLen
    /\ IsSpace(Char(ProbeCleaned, TruncLen))
    /\ IsSpace(Char(ProbeCleaned, TruncLen - 1))
    /\ ~IsSpace(Char(ProbeCleaned, TruncLen + 1))
    /\ Len(probe.value) = TruncLen - 2

\* C33: a sweep leaves every key that has a TTL and every key outside the
\* model namespace as it was, with or without a TTL, and adds no key; a sweep
\* whose Redis call raises, or that finds no client, returns 0 and leaves the
\* whole store as it was.
SweepLeavesOtherKeys ==
    probe.fn = "clear_expired" =>
        /\ DOMAIN store \subseteq DOMAIN probe.before
        /\ \A k \in DOMAIN probe.before :
               (probe.before[k].ttl # NoTtl \/ ~InModelNamespace(k)) =>
                   /\ k \in DOMAIN store
                   /\ store[k] = probe.before[k]
        /\ (probe.failed \/ redis_client = "None") =>
               /\ store = probe.before
               /\ probe.returned = 0
               /\ ~probe.raised

\* C33 witness: a sweep deleted one key and kept a key of the model namespace
\* that has a TTL and a key of the api namespace that has none
SweepKeptOtherKeys ==
    /\ probe.fn = "clear_expired"
    /\ probe.returned = 1
    /\ \E k \in DOMAIN store : InModelNamespace(k) /\ store[k].ttl # NoTtl
    /\ \E k \in DOMAIN store : ~InModelNamespace(k) /\ store[k].ttl = NoTtl

\* the dict is a fallback result: no model_confidence, or fallback_mode true
IsFallbackResult(d) ==
    \/ "model_confidence" \notin DOMAIN d
    \/ d.model_confidence = None
    \/ ("fallback_mode" \in DOMAIN d /\ d.fallback_mode = TRUE)

\* C34: every entry of the model namespace holds a model-backed result
\* (model_confidence present, fallback_mode not true), and a call answered
\* from the cache returns none that is a fallback result.
CacheHoldsModelBackedOnly ==
    /\ \A k \in DOMAIN store :
           InModelNamespace(k) => ~IsFallbackResult(json_loads(store[k].value))
    /\ \A t \in Tasks :
           (Returned(t) /\ lookup[t] = "hit") => ~IsFallbackResult(result[t])

\* C34 witness: with the store connected and holding an entry, a call missed,
\* returned a fallback result and left no entry under its key
FallbackLeftUncached ==
    \E t \in Tasks :
        /\ Returned(t)
        /\ lookup[t] = "miss"
        /\ compute[t] \in {"no_model", "raised"}
        /\ IsFallbackResult(result[t])
        /\ redis_client = "client"
        /\ DOMAIN store # {}
        /\ ModelKey(t) \notin DOMAIN store

(***************************************************************************)
(* The calls of a serving application and the maintenance sweep, run once  *)
(* at any moment between them                                              *)
(***************************************************************************)
\* await cache.clear_expired(), by whoever maintains the store
Sweep(fails) ==
    /\ LoopFree
    /\ probe = NoProbe
    /\ LET r == clear_expired(fails)
       IN  /\ store' = r.store
           /\ probe' = [fn |-> "clear_expired", raised |-> r.raised,
                        returned |-> r.deleted, failed |-> fails,
                        before |-> store, after |-> r.store]
    /\ written' = [k \in DOMAIN store' |-> written[k]]
    /\ lastCall' = IF store' = store THEN lastCall ELSE NoCall
    /\ seq' = IF store' = store THEN seq ELSE [t \in Tasks |-> FALSE]
    /\ UNCHANGED << sanitized, detected, model_loaded, loading_lock, classifier,
                    redis_client, app_pc, pc, kind, raw, sanitized_text, result, calls >>
    /\ UNCHANGED << loadAttempts, loadFailed, inWave, waveAttempts, waveObserved, lookup,
                    setres, compute >>
    /\ UNCHANGED limitVars

NextMaintain ==
    \/ NextLive
    \/ \E fails \in BOOLEAN : Sweep(fails)

SpecMaintain == InitServing /\ [][NextMaintain]_vars

\* C35: every entry of the model namespace has an expiry, and a sweep finds
\* nothing to delete: it returns 0 and leaves the store as it was.
WrittenEntriesCarryTtl ==
    /\ \A k \in DOMAIN store : InModelNamespace(k) => store[k].ttl > 0
    /\ probe.fn = "clear_expired" =>
           /\ probe.returned = 0
           /\ probe.after = probe.before

\* C35 witness: a call computed a model-backed result and stored it, and a
\* sweep of the connected store that held the entry returned 0
SweptAfterStore ==
    /\ probe.fn = "clear_expired"
    /\ ~probe.failed
    /\ redis_client = "client"
    /\ lastCall # NoCall
    /\ lastCall.compute = "model"
    /\ generate_key("model", lastCall.text) \in DOMAIN probe.before
    /\ probe.returned = 0

\* what a call could change besides its own position and result: the
\* classifier, its flag and lock, the load attempts made and the store
SharedState == << model_loaded, loading_lock, classifier, loadAttempts, store >>

\* C36: a call answered from the cache changes nothing but its own position
\* and result: its start, the get that hits and its return leave the flag,
\* the lock, the classifier, the number of load attempts and the store (value
\* and TTL of every entry) as they were, and after the hit the call takes no
\* step but its return, so it enters no load and no inference.
HitHasNoSideEffects ==
    [][\A t \in Tasks :
         /\ (pc[t] = "idle" /\ pc'[t] # "idle" /\ kind'[t] = "analyze") =>
                UNCHANGED SharedState
         /\ (pc[t] = "cache_get" /\ lookup'[t] = "hit") =>
                /\ UNCHANGED SharedState
                /\ pc'[t] = "done"
                /\ compute'[t] = "none"
                /\ setres'[t] = "none"
                /\ inWave'[t] = FALSE
         /\ (lookup[t] = "hit" /\ pc'[t] # pc[t]) =>
                /\ pc[t] = "done"
                /\ pc'[t] = "idle"
                /\ UNCHANGED SharedState]_vars

\* C36 witness: a call was answered from the cache by a process that has never
\* tried to load its classifier, and the entry still has its full TTL
HitLeftClassifierNotLoaded ==
    \E t \in Tasks :
        /\ Returned(t)
        /\ lookup[t] = "hit"
        /\ ClassifierState = "NotLoaded"
        /\ loadAttempts = 0
        /\ ModelKey(t) \in DOMAIN store
        /\ store[ModelKey(t)].ttl = TtlSeconds(CACHE_TTL_HOURS)
        /\ json_loads(store[ModelKey(t)].value) = result[t]

\* the step in which the inference of task t raises
InferenceRaises(t) == compute[t] # "raised" /\ compute'[t] = "raised"

\* the call of task t was made right after a call on the same text whose
\* inference raised, and has returned with the store serving it
ReturnedAfterRaise(t) ==
    /\ Returned(t) /\ seq[t] /\ Undisturbed(t)
    /\ lastCall # NoCall
    /\ lastCall.compute = "raised"

\* C37: the step in which an inference raises finds the classifier Ready and
\* leaves it Ready, leaves the store and the lock as they were and gives the
\* fallback result to that call only; the next call on the same text is not
\* answered by the fallback for a missing model: it runs the inference again,
\* and if that answers, its result is the model-backed one and is stored.
InferenceFailureIsLocal ==
    /\ [][\A t \in Tasks :
            InferenceRaises(t) =>
                /\ ClassifierState = "Ready"
                /\ ClassifierState' = "Ready"
                /\ UNCHANGED << store, loading_lock, classifier, loadAttempts >>
                /\ IsFallbackResult(result'[t])
                /\ \A u \in Tasks \ {t} : result'[u] = result[u]]_vars
    /\ [](\A t \in Tasks :
            ReturnedAfterRaise(t) =>
                /\ ClassifierState = "Ready"
                /\ compute[t] # "no_model"
                /\ lookup[t] = "hit" => ~IsFallbackResult(result[t])
                /\ compute[t] = "model" =>
                       /\ result[t] = ModelResult(sanitized_text[t],
                                                  classifier[sanitized_text[t]])
                       /\ setres[t] = "stored"
                       /\ store[ModelKey(t)].value = json_dumps(result[t]))

\* C37 witness: the inference of a call raised, and the next call on the same
\* text missed, computed a model-backed result and stored it
RecomputedAfterRaise ==
    \E t \in Tasks :
        /\ ReturnedAfterRaise(t)
        /\ IsFallbackResult(lastCall.result)
        /\ lookup[t] = "miss"
        /\ compute[t] = "model"
        /\ setres[t] = "stored"
        /\ ~IsFallbackResult(result[t])

\* task t completes its cache get or its cache set in this step
StoreOperationEnds(t) == pc[t] \in {"cache_get", "cache_set"} /\ pc'[t] # pc[t]

\* the operation that ends found the store disconnected: it left the store
\* alone and gave None (get) or False (set)
SeenDisconnected(t) ==
    /\ store' = store
    /\ pc[t] = "cache_get" => lookup'[t] = "down" /\ pc'[t] = "load_model"
    /\ pc[t] = "cache_set" => setres'[t] = "down"

\* a store operation that ends after a failed ping, or before connect was
\* called, or after disconnect, finds no client and the store disconnected
NoClientIsDisconnected ==
    [][\A t \in Tasks :
         (StoreOperationEnds(t) /\ app_pc # "ping" /\ redis_client = "None") =>
             SeenDisconnected(t)]_vars

\* C38: a store operation uses the client only after its ping has succeeded:
\* one that ends while connect awaits the ping, or after the ping failed,
\* finds no client, leaves the store alone and gives None or False.
StoreOperationsWaitForPing ==
    [][\A t \in Tasks :
         /\ (StoreOperationEnds(t) /\ app_pc = "ping") =>
                /\ redis_client = "None"
                /\ SeenDisconnected(t)
         /\ (StoreOperationEnds(t) /\ app_pc # "ping" /\ redis_client = "None") =>
                SeenDisconnected(t)]_vars

=============================================================================
